---- MODULE Spec2Model ----
(***************************************************************************)
(* LoveNotes: the pairing protocol (services/partner.ts), the shared       *)
(* secret cache (services/encryption.ts) and the deck engine               *)
(* (services/cards.ts) as state machines over the Firestore documents.     *)
(*                                                                         *)
(* Every await of the source is one step: between two steps of a call any  *)
(* other client may act.  Spec interleaves the clients' pairing calls,     *)
(* SpecSeq runs one call at a time.                                        *)
(***************************************************************************)
EXTENDS Integers, Sequences, FiniteSets, TLC

(***************************************************************************)
(* Bounds of the model.                                                    *)
(***************************************************************************)
MaxOps == 4
MaxOpsSeq == 4
MaxOpsSecret == 5
MaxCodes == 2
MaxOpsDeck == 4
MaxOpsDeckSeq == 6
MaxCards == 2
MaxOpsClient == 6
MaxOpsCards == 5
MaxOpsDevice == 5
MaxOpsDeviceSeq == 6
MaxOpsCipher == 3
MaxOpsClientFair == 5
MaxPayload == 2

(***************************************************************************)
(* Identities.  A user id is a string, modelled as the sequence of its     *)
(* UTF-16 code units: "a", "ab" and "b".  The empty string stands for the  *)
(* null partnerId (both are falsy in the source's checks).                 *)
(***************************************************************************)
uA == <<97>>
uAB == <<97, 98>>
uB == <<98>>
Users == {uA, uAB, uB}
Null == << >>
Underscore == 95
SevenDaysMs == 604800000
ClockLimit == SevenDaysMs + 1
Codes == 1..MaxCodes

\* Array.prototype.sort() without a comparator: the order of the code units.
RECURSIVE StrLess(_, _)
StrLess(s, t) ==
    IF s = << >> THEN t # << >>
    ELSE IF t = << >> THEN FALSE
    ELSE IF Head(s) = Head(t) THEN StrLess(Tail(s), Tail(t))
    ELSE Head(s) < Head(t)

\* [inviteData.userId, currentUser.id].sort()
SortedIds(inviterId, currentId) ==
    IF StrLess(currentId, inviterId) THEN <<currentId, inviterId>>
    ELSE <<inviterId, currentId>>

UnsortedIds(inviterId, currentId) == <<inviterId, currentId>>

\* userIds of acceptInviteCode
UserIds(inviterId, currentId) == SortedIds(inviterId, currentId)

\* `${userIds[0]}_${userIds[1]}`
PairIdOf(inviterId, currentId) ==
    LET userIds == UserIds(inviterId, currentId)
    IN  userIds[1] \o <<Underscore>> \o userIds[2]

\* the ids a pair document can have, and every key the collection may be asked for
PairIds == {SortedIds(x[1], x[2])[1] \o <<Underscore>> \o SortedIds(x[1], x[2])[2] :
              x \in {y \in Users \X Users : y[1] # y[2]}}
PairKeys == {x[1] \o <<Underscore>> \o x[2] :
              x \in {y \in Users \X Users : y[1] # y[2]}}

VARIABLES
    users,             \* Firestore collection 'users': the Identity documents
    localUser,         \* AuthContext's user object on each identity's client
    inviteCodes,       \* Firestore collection 'inviteCodes'
    usedCodes,         \* the codes generateInviteCode has handed out
    pairs,             \* Firestore collection 'pairs'
    sharedSecretCache, \* EncryptionService.sharedSecretCache of each client
    now,               \* the clock, in milliseconds
    pc,                \* where each client's call stands
    loc,               \* the locals of each client's call
    prevCall,          \* the last finished call that wrote something
    ops,               \* calls and events the run may still start
    cards,             \* Firestore collection 'cards'
    draws,             \* Firestore drawHistory/{pairId}/draws, oldest first
    dpc,               \* where each drawRandomCard call stands
    dloc,              \* the locals of each drawRandomCard call
    loggedIn,          \* AuthContext: the user object of the client is not null
    ctx,               \* PartnerProvider: its state and its refs
    subscriptions,     \* the onSnapshot listeners of the client not yet removed
    feedPending,       \* the document changed and the listener has not run yet
    loads,             \* the getPartner calls of loadPartner still in flight
    cpc,               \* where the client's user action stands
    readback,          \* the read-back acceptInviteCode has scheduled
    hist,              \* what the claims need to remember of the client's past
    authUser,          \* auth.currentUser on each device
    asyncStorage,      \* AsyncStorage of each device
    published,         \* the key material fields of the Firestore documents
    deviceCache,       \* EncryptionService.sharedSecretCache of each device
    secretCalls,       \* the getSharedSecret calls of each device
    derivations,       \* per device and pair: what was derived since the eviction
    generatedOn,       \* the device on which each identity's keypair was made
    authState,         \* AuthProvider of each device: user, pending callback
    naclUtil,          \* whether the tweetnacl of the build has nacl.util
    cipher             \* the cipher operation under test, inputs and result

vars == <<users, localUser, inviteCodes, usedCodes, pairs, sharedSecretCache,
          now, pc, loc, prevCall, ops, cards, draws, dpc, dloc,
          loggedIn, ctx, subscriptions, feedPending, loads, cpc, readback,
          hist, authUser, asyncStorage, published, deviceCache, secretCalls,
          derivations, generatedOn, authState, naclUtil, cipher>>

cipherVars == <<naclUtil, cipher>>

deviceVars == <<authUser, asyncStorage, published, deviceCache, secretCalls,
                derivations, generatedOn, authState>>

clientVars == <<loggedIn, ctx, subscriptions, feedPending, loads, cpc,
                readback, hist>>

deckVars == <<cards, draws, dpc, dloc>>

pairVars == <<users, localUser, inviteCodes, usedCodes, pairs,
              sharedSecretCache, pc, loc, prevCall>>

NoSecret == {}
NoInvite == [exists |-> FALSE, userId |-> Null, expiresAt |-> 0]
NoPair == [exists |-> FALSE, user1Id |-> Null, user2Id |-> Null]
NoUser == [partnerId |-> Null, connectionStatus |-> "unpaired"]

NoCall == [op |-> "none", by |-> Null, code |-> 0, pairId |-> Null,
           currentUser |-> NoUser, inviterId |-> Null,
           inviterPartnerId |-> Null, pairData |-> NoPair,
           partnerPublicKey |-> Null, result |-> "none", writes |-> 0,
           clean |-> FALSE]

\* register: the Identity document of a new user (auth.ts)
NewUserData == [partnerId |-> Null, connectionStatus |-> "unpaired"]

\* a write of the status alone
ConnectedStatusOnly(pairId) == [partnerId |-> Null, connectionStatus |-> "connected"]

\* the fields acceptInviteCode writes to a user document
ConnectedFields(pairId) == [partnerId |-> pairId, connectionStatus |-> "connected"]

\* the fields breakup writes to a user document
BrokenFields == [partnerId |-> Null, connectionStatus |-> "broken"]

\* keypair of an identity; nacl.box.before(partnerPublicKey, myPrivateKey)
PublicKey(u) == <<"publicKey", u>>
PrivateKey(u) == <<"privateKey", u>>
DeriveSharedSecret(partnerPublicKey, privateKey) ==
    {partnerPublicKey[2], privateKey[2]}

\* what the sequential specification remembers of a finished call
\* the decks the draws are made from, the viewers, the calls in flight
DeckPairs == {PairIdOf(uA, uB), PairIdOf(uA, uAB)}
Viewers == {uA, uB}

\* the identity whose cards are in the decks: a viewer itself, and the partner
\* of the other viewer
Creators == {uA}
Slots == {1, 2}
CardIds == 1..MaxCards

NoCard == [exists |-> FALSE, pairId |-> Null, creatorId |-> Null,
           isRead |-> FALSE, drawsBefore |-> 0]

NoDrawYet == 0 - 1

NoDraw == [pairId |-> Null, viewerId |-> Null, checkedAt |-> 0,
           lastDrawTime |-> NoDrawYet, remainingMinutes |-> 0, selected |-> 0,
           pending |-> {}, result |-> "none", marked |-> {},
           cardsBefore |-> << >>, drawsBefore |-> << >>]

\* PartnerProvider before any user: useState and useRef initial values
NoContext == [partner |-> Null, connectionStatus |-> "unpaired",
              loading |-> TRUE, loadingRef |-> FALSE,
              currentPartnerIdRef |-> Null]

\* PartnerProvider once mounted: the user-change effect has run with no user
MountedContext == [NoContext EXCEPT !.loading = FALSE]

NoHistory == [requested |-> Null, superseding |-> FALSE, dropped |-> FALSE,
              former |-> Null, failed |-> FALSE, evicted |-> FALSE]

Summary(call) ==
    [op |-> call.op, by |-> call.by, code |-> call.code,
     pairId |-> call.pairId, inviterId |-> call.inviterId,
     result |-> call.result, writes |-> call.writes, clean |-> call.clean]

\* the devices, the identities that register on them, the calls of a device
Devices == {1, 2}
Accounts == {uA, uB, uAB}
CallSlots == {1, 2}
NoDevice == 0

\* AsyncStorage: '@lovenotes:privateKey', '@lovenotes:user', and the keys
\* with the prefix '@lovenotes:sharedSecret:'
NoStorage == [privateKey |-> Null, user |-> Null,
              sharedSecret |-> [p \in PairKeys |-> NoSecret]]

\* users/{uid}.publicKey, inviteCodes/{code}.publicKey, cards/{id}.encryptedContent
NoPublished == [users |-> [u \in Accounts |-> Null], inviteCodes |-> {},
                cards |-> {}]

NoSecretCall == [at |-> "idle", pairId |-> Null, partnerPublicKey |-> Null,
                 privateKey |-> Null, readKey |-> FALSE, result |-> "none",
                 value |-> NoSecret, cacheBefore |-> NoSecret,
                 cleared |-> FALSE]

\* AuthProvider before any user; changed: onAuthStateChanged has not run yet
\* for the last sign-in or sign-out; failed: the last login threw
NoAuthState == [user |-> Null, changed |-> FALSE, failed |-> FALSE]

NoDerivation == [count |-> 0, values |-> {}]

NoCipher == [op |-> "none", kind |-> "none", payload |-> << >>, key |-> 0,
             stored |-> << >>, cut |-> 0, key2 |-> 0, outcome |-> "none",
             value |-> << >>]

InitDocuments ==
    /\ users = [u \in Users |-> NewUserData]
    /\ localUser = [u \in Users |-> NewUserData]
    /\ inviteCodes = [c \in Codes |-> NoInvite]
    /\ usedCodes = {}
    /\ pairs = [p \in PairKeys |-> NoPair]
    /\ sharedSecretCache = [u \in Users |-> [p \in PairKeys |-> NoSecret]]
    /\ now = 0
    /\ pc = [u \in Users |-> "idle"]
    /\ loc = [u \in Users |-> NoCall]
    /\ prevCall = Summary(NoCall)
    /\ cards = [c \in CardIds |-> NoCard]
    /\ draws = << >>
    /\ dpc = [k \in Slots |-> "idle"]
    /\ dloc = [k \in Slots |-> NoDraw]
    /\ loggedIn = FALSE
    /\ ctx = MountedContext
    /\ subscriptions = 0
    /\ feedPending = FALSE
    /\ loads = << >>
    /\ cpc = "idle"
    /\ readback = "none"
    /\ hist = NoHistory
    /\ authUser = [d \in Devices |-> Null]
    /\ asyncStorage = [d \in Devices |-> NoStorage]
    /\ published = NoPublished
    /\ deviceCache = [d \in Devices |-> [p \in PairKeys |-> NoSecret]]
    /\ secretCalls = [d \in Devices |-> [k \in CallSlots |-> NoSecretCall]]
    /\ derivations = [d \in Devices |-> [p \in PairKeys |-> NoDerivation]]
    /\ generatedOn = [u \in Accounts |-> NoDevice]
    /\ authState = [d \in Devices |-> NoAuthState]

InitStore ==
    /\ InitDocuments
    /\ naclUtil = FALSE
    /\ cipher = NoCipher

Init == InitStore /\ ops = MaxOps

InitSeq == InitStore /\ ops = MaxOpsSeq

InitSecret == InitStore /\ ops = MaxOpsSecret

InitDeck == InitStore /\ ops = MaxOpsDeck

InitDeckSeq == InitStore /\ ops = MaxOpsDeckSeq

InitClient == InitStore /\ ops = MaxOpsClient

InitClientFair == InitStore /\ ops = MaxOpsClientFair

InitCards == InitStore /\ ops = MaxOpsCards

InitDevice == InitStore /\ ops = MaxOpsDevice

InitDeviceSeq == InitStore /\ ops = MaxOpsDeviceSeq

Quiet == \A u \in Users : pc[u] = "idle"

\* a call ends: its result stays visible until the caller takes it (Return)
Finish(u, call, result) ==
    /\ pc' = [pc EXCEPT ![u] = "done"]
    /\ loc' = [loc EXCEPT ![u] = [call EXCEPT !.result = result]]

Begin(u, call, at) ==
    /\ pc' = [pc EXCEPT ![u] = at]
    /\ loc' = [loc EXCEPT ![u] = call]

Return(u) ==
    /\ pc[u] = "done"
    /\ pc' = [pc EXCEPT ![u] = "idle"]
    /\ loc' = [loc EXCEPT ![u] = NoCall]
    /\ UNCHANGED deckVars
    /\ UNCHANGED clientVars
    /\ UNCHANGED deviceVars
    /\ UNCHANGED cipherVars
    /\ UNCHANGED <<users, localUser, inviteCodes, usedCodes, pairs,
                   sharedSecretCache, now, prevCall, ops>>

\* the same, remembering the call if it wrote something
ReturnSeq(u) ==
    /\ pc[u] = "done"
    /\ pc' = [pc EXCEPT ![u] = "idle"]
    /\ loc' = [loc EXCEPT ![u] = NoCall]
    /\ prevCall' = IF loc[u].writes > 0 THEN Summary(loc[u]) ELSE prevCall
    /\ UNCHANGED deckVars
    /\ UNCHANGED clientVars
    /\ UNCHANGED deviceVars
    /\ UNCHANGED cipherVars
    /\ UNCHANGED <<users, localUser, inviteCodes, usedCodes, pairs,
                   sharedSecretCache, now, ops>>

(***************************************************************************)
(* AuthContext: the client's user object is replaced by the stored         *)
(* document on login and on a forced refresh, and by nothing else.         *)
(***************************************************************************)
RefreshUser(u) ==
    /\ pc[u] = "idle"
    /\ ops > 0
    /\ localUser[u] # users[u]
    /\ localUser' = [localUser EXCEPT ![u] = users[u]]
    /\ ops' = ops - 1
    /\ UNCHANGED deckVars
    /\ UNCHANGED clientVars
    /\ UNCHANGED deviceVars
    /\ UNCHANGED cipherVars
    /\ UNCHANGED <<users, inviteCodes, usedCodes, pairs, sharedSecretCache,
                   now, pc, loc, prevCall>>

\* time passes
AdvanceClock(delta) ==
    /\ ops > 0
    /\ now + delta <= ClockLimit
    /\ now' = now + delta
    /\ ops' = ops - 1
    /\ UNCHANGED deckVars
    /\ UNCHANGED clientVars
    /\ UNCHANGED deviceVars
    /\ UNCHANGED cipherVars
    /\ UNCHANGED <<users, localUser, inviteCodes, usedCodes, pairs,
                   sharedSecretCache, pc, loc, prevCall>>

(***************************************************************************)
(* PartnerContext.generateInviteCode and PartnerService.generateInviteCode *)
(* The code is 16 random bytes: a code is never handed out twice.          *)
(***************************************************************************)
ExpiresAt(createdAt) == createdAt + SevenDaysMs

GenerateInviteCode(u) ==
    /\ pc[u] = "idle"
    /\ ops > 0
    /\ ops' = ops - 1
    /\ LET call == [NoCall EXCEPT !.op = "generate", !.by = u,
                                  !.currentUser = localUser[u]]
       IN  IF PublicKey(u) = Null
           THEN /\ Finish(u, call, "MissingKeys")
                /\ UNCHANGED <<inviteCodes, usedCodes>>
           ELSE IF localUser[u].partnerId # Null
           THEN /\ Finish(u, call, "AlreadyPaired")
                /\ UNCHANGED <<inviteCodes, usedCodes>>
           ELSE \E c \in {x \in Codes \ usedCodes :
                                \A y \in Codes \ usedCodes : x <= y} :
                  /\ inviteCodes' = [inviteCodes EXCEPT ![c] =
                        [exists |-> TRUE, userId |-> u,
                         expiresAt |-> ExpiresAt(now)]]
                  /\ usedCodes' = usedCodes \cup {c}
                  /\ Finish(u, [call EXCEPT !.code = c, !.writes = 1], "ok")
    /\ UNCHANGED deckVars
    /\ UNCHANGED clientVars
    /\ UNCHANGED deviceVars
    /\ UNCHANGED cipherVars
    /\ UNCHANGED <<users, localUser, pairs, sharedSecretCache, now, prevCall>>

(***************************************************************************)
(* PartnerService.acceptInviteCode(inviteCode, currentUser)                *)
(***************************************************************************)
ExpiredAtExpiry(expiresAt, time) == expiresAt <= time

\* expiresAt && expiresAt < new Date()
IsExpired(expiresAt, time) == expiresAt < time

\* currentUser.partnerId && currentUser.partnerId !== pairId
AccepterAlreadyPaired(currentUser, pairId) ==
    currentUser.partnerId # Null /\ currentUser.partnerId # pairId

\* inviterData.partnerId && inviterData.partnerId !== pairId
InviterAlreadyPaired(inviterPartnerId, pairId) ==
    inviterPartnerId # Null /\ inviterPartnerId # pairId

\* the membership test of the existing pair
PairIsValid(pairData, inviterId, currentId) ==
    /\ pairData.user1Id = inviterId \/ pairData.user2Id = inviterId
    /\ pairData.user1Id = currentId \/ pairData.user2Id = currentId

\* if (inviterData.partnerId !== pairId)
NeedInviterUpdate(inviterPartnerId, pairId) == inviterPartnerId # pairId

NeverSelfUpdate(currentUser, pairId) == FALSE

\* if (currentUser.partnerId !== pairId)
NeedSelfUpdate(currentUser, pairId) == currentUser.partnerId # pairId

\* the next await of the branch that found the pair
AfterInviterUpdate(call) ==
    IF NeedSelfUpdate(call.currentUser, call.pairId) THEN "acc_idemSelf"
    ELSE "acc_idemDelete"

AfterExistingPair(call) ==
    IF NeedInviterUpdate(call.inviterPartnerId, call.pairId) THEN "acc_idemInviter"
    ELSE AfterInviterUpdate(call)

Members(pairData) == {pairData.user1Id, pairData.user2Id}

\* the pair documents that name u as a member
PairsOf(u) == {p \in PairKeys : pairs[p].exists /\ u \in Members(pairs[p])}

\* what the claims call a fresh acceptance: a live code of another identity,
\* both identities unpaired (no partnerId, member of no pair), the passed
\* object agreeing with the document
CleanAccept(u, currentUser, inviteDoc) ==
    /\ inviteDoc.exists
    /\ inviteDoc.userId # u
    /\ users[inviteDoc.userId].partnerId = Null
    /\ users[u].partnerId = Null
    /\ currentUser.partnerId = Null
    /\ PairsOf(inviteDoc.userId) = {}
    /\ PairsOf(u) = {}

AcceptInviteCode_Start(u, c) ==
    /\ pc[u] = "idle"
    /\ ops > 0
    /\ ops' = ops - 1
    /\ LET currentUser == localUser[u]
           inviteDoc == inviteCodes[c]
           call == [NoCall EXCEPT !.op = "accept", !.by = u, !.code = c,
                                  !.currentUser = currentUser]
       IN  IF ~inviteDoc.exists THEN Finish(u, call, "InvalidCode")
           ELSE IF IsExpired(inviteDoc.expiresAt, now)
           THEN Finish(u, call, "CodeExpired")
           ELSE IF inviteDoc.userId = u THEN Finish(u, call, "SelfPairing")
           ELSE LET pairId == PairIdOf(inviteDoc.userId, u)
                    call2 == [call EXCEPT !.inviterId = inviteDoc.userId,
                                 !.pairId = pairId,
                                 !.partnerPublicKey = PublicKey(inviteDoc.userId),
                                 !.clean = CleanAccept(u, currentUser, inviteDoc)]
                IN  IF AccepterAlreadyPaired(currentUser, pairId)
                    THEN Finish(u, call2, "AlreadyPaired")
                    ELSE Begin(u, call2, "acc_getInviter")
    /\ UNCHANGED deckVars
    /\ UNCHANGED clientVars
    /\ UNCHANGED deviceVars
    /\ UNCHANGED cipherVars
    /\ UNCHANGED <<users, localUser, inviteCodes, usedCodes, pairs,
                   sharedSecretCache, now, prevCall>>

AcceptInviteCode_GetInviter(u) ==
    /\ pc[u] = "acc_getInviter"
    /\ LET inviterData == users[loc[u].inviterId]
           call == [loc[u] EXCEPT !.inviterPartnerId = inviterData.partnerId]
       IN  IF InviterAlreadyPaired(inviterData.partnerId, call.pairId)
           THEN Finish(u, call, "PartnerAlreadyPaired")
           ELSE Begin(u, call, "acc_getPair")
    /\ UNCHANGED deckVars
    /\ UNCHANGED clientVars
    /\ UNCHANGED deviceVars
    /\ UNCHANGED cipherVars
    /\ UNCHANGED <<users, localUser, inviteCodes, usedCodes, pairs,
                   sharedSecretCache, now, prevCall, ops>>

AcceptInviteCode_GetPair(u) ==
    /\ pc[u] = "acc_getPair"
    /\ LET existingPairData == pairs[loc[u].pairId]
       IN  IF existingPairData.exists
           THEN IF PairIsValid(existingPairData, loc[u].inviterId, u)
                THEN Begin(u, loc[u], AfterExistingPair(loc[u]))
                ELSE Finish(u, loc[u], "InvalidPair")
           ELSE Begin(u, loc[u], "acc_setPair")
    /\ UNCHANGED deckVars
    /\ UNCHANGED clientVars
    /\ UNCHANGED deviceVars
    /\ UNCHANGED cipherVars
    /\ UNCHANGED <<users, localUser, inviteCodes, usedCodes, pairs,
                   sharedSecretCache, now, prevCall, ops>>

KeepInviteCode(codes, inviteCode) == codes

\* deleteDoc(doc(db, INVITE_CODES_COLLECTION, inviteCode))
DeleteInviteCode(codes, inviteCode) == [codes EXCEPT ![inviteCode] = NoInvite]

Wrote(call) == [call EXCEPT !.writes = call.writes + 1]

AcceptInviteCode_IdemInviter(u) ==
    /\ pc[u] = "acc_idemInviter"
    /\ users' = [users EXCEPT ![loc[u].inviterId] = ConnectedFields(loc[u].pairId)]
    /\ Begin(u, Wrote(loc[u]), AfterInviterUpdate(loc[u]))
    /\ UNCHANGED deckVars
    /\ UNCHANGED clientVars
    /\ UNCHANGED deviceVars
    /\ UNCHANGED cipherVars
    /\ UNCHANGED <<localUser, inviteCodes, usedCodes, pairs, sharedSecretCache,
                   now, prevCall, ops>>

AcceptInviteCode_IdemSelf(u) ==
    /\ pc[u] = "acc_idemSelf"
    /\ users' = [users EXCEPT ![u] = ConnectedFields(loc[u].pairId)]
    /\ Begin(u, Wrote(loc[u]), "acc_idemDelete")
    /\ UNCHANGED deckVars
    /\ UNCHANGED clientVars
    /\ UNCHANGED deviceVars
    /\ UNCHANGED cipherVars
    /\ UNCHANGED <<localUser, inviteCodes, usedCodes, pairs, sharedSecretCache,
                   now, prevCall, ops>>

AcceptInviteCode_IdemDelete(u) ==
    /\ pc[u] = "acc_idemDelete"
    /\ inviteCodes' = DeleteInviteCode(inviteCodes, loc[u].code)
    /\ Finish(u, Wrote(loc[u]), "ok")
    /\ UNCHANGED deckVars
    /\ UNCHANGED clientVars
    /\ UNCHANGED deviceVars
    /\ UNCHANGED cipherVars
    /\ UNCHANGED <<users, localUser, usedCodes, pairs, sharedSecretCache,
                   now, prevCall, ops>>

PairDataOfOne(inviterId, currentId) ==
    [exists |-> TRUE, user1Id |-> UserIds(inviterId, currentId)[1],
     user2Id |-> UserIds(inviterId, currentId)[1]]

\* pairData of the new pair
NewPairData(inviterId, currentId) ==
    [exists |-> TRUE, user1Id |-> UserIds(inviterId, currentId)[1],
     user2Id |-> UserIds(inviterId, currentId)[2]]

AcceptInviteCode_SetPair(u) ==
    /\ pc[u] = "acc_setPair"
    /\ pairs' = [pairs EXCEPT ![loc[u].pairId] = NewPairData(loc[u].inviterId, u)]
    /\ Begin(u, Wrote(loc[u]), "acc_updInviter")
    /\ UNCHANGED deckVars
    /\ UNCHANGED clientVars
    /\ UNCHANGED deviceVars
    /\ UNCHANGED cipherVars
    /\ UNCHANGED <<users, localUser, inviteCodes, usedCodes, sharedSecretCache,
                   now, prevCall, ops>>

AcceptInviteCode_UpdInviter(u) ==
    /\ pc[u] = "acc_updInviter"
    /\ users' = [users EXCEPT ![loc[u].inviterId] = ConnectedFields(loc[u].pairId)]
    /\ Begin(u, Wrote(loc[u]), "acc_updSelf")
    /\ UNCHANGED deckVars
    /\ UNCHANGED clientVars
    /\ UNCHANGED deviceVars
    /\ UNCHANGED cipherVars
    /\ UNCHANGED <<localUser, inviteCodes, usedCodes, pairs, sharedSecretCache,
                   now, prevCall, ops>>

AcceptInviteCode_UpdSelf(u) ==
    /\ pc[u] = "acc_updSelf"
    /\ users' = [users EXCEPT ![u] = ConnectedFields(loc[u].pairId)]
    /\ Begin(u, Wrote(loc[u]), "acc_delete")
    /\ UNCHANGED deckVars
    /\ UNCHANGED clientVars
    /\ UNCHANGED deviceVars
    /\ UNCHANGED cipherVars
    /\ UNCHANGED <<localUser, inviteCodes, usedCodes, pairs, sharedSecretCache,
                   now, prevCall, ops>>

AcceptInviteCode_Delete(u) ==
    /\ pc[u] = "acc_delete"
    /\ inviteCodes' = DeleteInviteCode(inviteCodes, loc[u].code)
    /\ Finish(u, Wrote(loc[u]), "ok")
    /\ UNCHANGED deckVars
    /\ UNCHANGED clientVars
    /\ UNCHANGED deviceVars
    /\ UNCHANGED cipherVars
    /\ UNCHANGED <<users, localUser, usedCodes, pairs, sharedSecretCache,
                   now, prevCall, ops>>

(***************************************************************************)
(* PartnerService.breakup(userId, pairId)                                  *)
(***************************************************************************)
\* pairData.user1Id !== userId && pairData.user2Id !== userId
EveryoneIsPart(pairData, userId) == FALSE

NotPartOfPair(pairData, userId) ==
    pairData.user1Id # userId /\ pairData.user2Id # userId

KeepSharedSecret(cache, pairId) == cache

\* EncryptionService.clearSharedSecret(pairId)
ClearSharedSecret(cache, pairId) == [cache EXCEPT ![pairId] = NoSecret]

Breakup_Start(u, p) ==
    /\ pc[u] = "idle"
    /\ ops > 0
    /\ ops' = ops - 1
    /\ LET pairDoc == pairs[p]
           call == [NoCall EXCEPT !.op = "breakup", !.by = u, !.pairId = p,
                                  !.currentUser = localUser[u]]
       IN  IF ~pairDoc.exists THEN Finish(u, call, "PairNotFound")
           ELSE IF NotPartOfPair(pairDoc, u) THEN Finish(u, call, "NotAMember")
           ELSE Begin(u, [call EXCEPT !.pairData = pairDoc,
                            !.clean = sharedSecretCache[u][p] # NoSecret],
                      "brk_upd1")
    /\ UNCHANGED deckVars
    /\ UNCHANGED clientVars
    /\ UNCHANGED deviceVars
    /\ UNCHANGED cipherVars
    /\ UNCHANGED <<users, localUser, inviteCodes, usedCodes, pairs,
                   sharedSecretCache, now, prevCall>>

Breakup_Upd1(u) ==
    /\ pc[u] = "brk_upd1"
    /\ users' = [users EXCEPT ![loc[u].pairData.user1Id] = BrokenFields]
    /\ Begin(u, Wrote(loc[u]), "brk_upd2")
    /\ UNCHANGED deckVars
    /\ UNCHANGED clientVars
    /\ UNCHANGED deviceVars
    /\ UNCHANGED cipherVars
    /\ UNCHANGED <<localUser, inviteCodes, usedCodes, pairs, sharedSecretCache,
                   now, prevCall, ops>>

Breakup_Upd2(u) ==
    /\ pc[u] = "brk_upd2"
    /\ users' = [users EXCEPT ![loc[u].pairData.user2Id] = BrokenFields]
    /\ Begin(u, Wrote(loc[u]), "brk_delete")
    /\ UNCHANGED deckVars
    /\ UNCHANGED clientVars
    /\ UNCHANGED deviceVars
    /\ UNCHANGED cipherVars
    /\ UNCHANGED <<localUser, inviteCodes, usedCodes, pairs, sharedSecretCache,
                   now, prevCall, ops>>

Breakup_Delete(u) ==
    /\ pc[u] = "brk_delete"
    /\ pairs' = [pairs EXCEPT ![loc[u].pairId] = NoPair]
    /\ Begin(u, Wrote(loc[u]), "brk_clear")
    /\ UNCHANGED deckVars
    /\ UNCHANGED clientVars
    /\ UNCHANGED deviceVars
    /\ UNCHANGED cipherVars
    /\ UNCHANGED <<users, localUser, inviteCodes, usedCodes, sharedSecretCache,
                   now, prevCall, ops>>

Breakup_Clear(u) ==
    /\ pc[u] = "brk_clear"
    /\ sharedSecretCache' = [sharedSecretCache EXCEPT ![u] =
                               ClearSharedSecret(@, loc[u].pairId)]
    /\ Finish(u, Wrote(loc[u]), "ok")
    /\ UNCHANGED deckVars
    /\ UNCHANGED clientVars
    /\ UNCHANGED deviceVars
    /\ UNCHANGED cipherVars
    /\ UNCHANGED <<users, localUser, inviteCodes, usedCodes, pairs, now,
                   prevCall, ops>>

\* a store call of the running operation is rejected (the network drops):
\* the operation throws, what it wrote before stays written
StoreCalls == {"acc_getInviter", "acc_getPair", "acc_idemInviter",
               "acc_idemSelf", "acc_idemDelete", "acc_setPair",
               "acc_updInviter", "acc_updSelf", "acc_delete",
               "brk_upd1", "brk_upd2", "brk_delete"}

Fault(u) ==
    /\ pc[u] \in StoreCalls
    /\ Finish(u, loc[u], "network")
    /\ UNCHANGED deckVars
    /\ UNCHANGED clientVars
    /\ UNCHANGED deviceVars
    /\ UNCHANGED cipherVars
    /\ UNCHANGED <<users, localUser, inviteCodes, usedCodes, pairs,
                   sharedSecretCache, now, prevCall, ops>>

(***************************************************************************)
(* EncryptionService.getSharedSecret(pairId, partnerPublicKey), called     *)
(* with the id of the pair of u and v and v's public key.                  *)
(***************************************************************************)
GetSharedSecret_Start(u, v) ==
    /\ pc[u] = "idle"
    /\ u # v
    /\ ops > 0
    /\ ops' = ops - 1
    /\ LET pairId == PairIdOf(u, v)
           call == [NoCall EXCEPT !.op = "getSharedSecret", !.by = u,
                       !.pairId = pairId, !.partnerPublicKey = PublicKey(v)]
       IN  IF sharedSecretCache[u][pairId] # NoSecret
           THEN Finish(u, call, "hit")
           ELSE Begin(u, call, "gss_derive")
    /\ UNCHANGED deckVars
    /\ UNCHANGED clientVars
    /\ UNCHANGED deviceVars
    /\ UNCHANGED cipherVars
    /\ UNCHANGED <<users, localUser, inviteCodes, usedCodes, pairs,
                   sharedSecretCache, now, prevCall>>

GetSharedSecret_Derive(u) ==
    /\ pc[u] = "gss_derive"
    /\ sharedSecretCache' = [sharedSecretCache EXCEPT ![u][loc[u].pairId] =
          DeriveSharedSecret(loc[u].partnerPublicKey, PrivateKey(u))]
    /\ Finish(u, Wrote(loc[u]), "derived")
    /\ UNCHANGED deckVars
    /\ UNCHANGED clientVars
    /\ UNCHANGED deviceVars
    /\ UNCHANGED cipherVars
    /\ UNCHANGED <<users, localUser, inviteCodes, usedCodes, pairs, now,
                   prevCall, ops>>

(***************************************************************************)
(* CardService: the deck of a pair, the draws and the cooldown.            *)
(***************************************************************************)
COOLDOWN_MINUTES == 15
MAX_TEXT_LENGTH == 200
MinuteMs == 60000

DQuiet == \A k \in Slots : dpc[k] = "idle"

DFinish(k, call, result) ==
    /\ dpc' = [dpc EXCEPT ![k] = "done"]
    /\ dloc' = [dloc EXCEPT ![k] = [call EXCEPT !.result = result]]

DBegin(k, call, at) ==
    /\ dpc' = [dpc EXCEPT ![k] = at]
    /\ dloc' = [dloc EXCEPT ![k] = call]

CardsOfAnyPair(pairId) == {c \in CardIds : cards[c].exists}

\* getAllCards(pairId)
GetAllCards(pairId) ==
    {c \in CardIds : cards[c].exists /\ cards[c].pairId = pairId}

UnreadOfAnyPair(pairId) ==
    {c \in CardIds : cards[c].exists /\ ~cards[c].isRead}

CardsReadOrNot(pairId) ==
    {c \in CardIds : cards[c].exists /\ cards[c].pairId = pairId}

\* getUnreadCards(pairId)
GetUnreadCards(pairId) ==
    {c \in CardIds : /\ cards[c].exists
                     /\ cards[c].pairId = pairId
                     /\ cards[c].isRead = FALSE}

\* the draws recorded under drawHistory/{pairId}/draws
DrawsOfPair(history, pairId) ==
    {i \in 1..Len(history) : history[i].pairId = pairId}

DrawsByAnyone(history, pairId, userId) == DrawsOfPair(history, pairId)

\* where('viewedBy', '==', userId)
DrawsBy(history, pairId, userId) ==
    {i \in DrawsOfPair(history, pairId) : history[i].viewedBy = userId}

\* orderBy('drawnAt', 'desc'), limit(1)
LastDrawTime(history, pairId, userId) ==
    IF DrawsBy(history, pairId, userId) = {}
    THEN NoDrawYet
    ELSE CHOOSE t \in {history[i].drawnAt : i \in DrawsBy(history, pairId, userId)} :
            \A i \in DrawsBy(history, pairId, userId) : history[i].drawnAt <= t

CooldownOverStrict(elapsedMs) == elapsedMs > COOLDOWN_MINUTES * MinuteMs

\* minutesSinceLastDraw >= COOLDOWN_MINUTES
CooldownOver(elapsedMs) == elapsedMs >= COOLDOWN_MINUTES * MinuteMs

\* Math.ceil(COOLDOWN_MINUTES - minutesSinceLastDraw)
RemainingMinutes(elapsedMs) ==
    (COOLDOWN_MINUTES * MinuteMs - elapsedMs + MinuteMs - 1) \div MinuteMs

\* checkCooldown(pairId, userId), the clock read at time
CheckCooldown(pairId, userId, time) ==
    LET lastDrawTime == LastDrawTime(draws, pairId, userId)
    IN  IF lastDrawTime = NoDrawYet
        THEN [allowed |-> TRUE, remainingMinutes |-> 0]
        ELSE IF CooldownOver(time - lastDrawTime)
             THEN [allowed |-> TRUE, remainingMinutes |-> 0]
             ELSE [allowed |-> FALSE,
                   remainingMinutes |-> RemainingMinutes(time - lastDrawTime)]

\* createTextCard: the text is checked, the card is stored unread
CreateTextCard(pairId, creatorId, length) ==
    /\ ops > 0
    /\ ops' = ops - 1
    /\ IF length > MAX_TEXT_LENGTH
       THEN UNCHANGED cards
       ELSE /\ \E c \in CardIds : cards[c].exists = FALSE
            /\ LET cardRef == CHOOSE c \in CardIds :
                                 /\ cards[c].exists = FALSE
                                 /\ \A d \in CardIds :
                                       cards[d].exists = FALSE => c <= d
               IN  cards' = [cards EXCEPT ![cardRef] =
                       [exists |-> TRUE, pairId |-> pairId,
                        creatorId |-> creatorId, isRead |-> FALSE,
                        drawsBefore |-> Cardinality(DrawsOfPair(draws, pairId))]]
    /\ UNCHANGED <<draws, dpc, dloc, now>>
    /\ UNCHANGED pairVars
    /\ UNCHANGED clientVars
    /\ UNCHANGED deviceVars
    /\ UNCHANGED cipherVars

\* CreateCardScreen.handleSave: the card goes to the pair of the user object;
\* getPartnerPublicKey throws without the pair document
HandleSave(u, length) ==
    /\ localUser[u].partnerId # Null
    /\ pairs[localUser[u].partnerId].exists
    /\ CreateTextCard(localUser[u].partnerId, u, length)

DrawRandomCard_Start(k, pairId, viewerId) ==
    /\ dpc[k] = "idle"
    /\ ops > 0
    /\ ops' = ops - 1
    /\ DBegin(k, [NoDraw EXCEPT !.pairId = pairId, !.viewerId = viewerId,
                     !.cardsBefore = cards, !.drawsBefore = draws],
              "checkCooldown")
    /\ UNCHANGED <<cards, draws, now>>
    /\ UNCHANGED pairVars
    /\ UNCHANGED clientVars
    /\ UNCHANGED deviceVars
    /\ UNCHANGED cipherVars

DrawRandomCard_CheckCooldown(k) ==
    /\ dpc[k] = "checkCooldown"
    /\ LET canDraw == CheckCooldown(dloc[k].pairId, dloc[k].viewerId, now)
           call == [dloc[k] EXCEPT
                       !.checkedAt = now,
                       !.lastDrawTime =
                           LastDrawTime(draws, dloc[k].pairId, dloc[k].viewerId),
                       !.remainingMinutes = canDraw.remainingMinutes]
       IN  IF ~canDraw.allowed
           THEN DFinish(k, call, "CooldownActive")
           ELSE DBegin(k, call, "getUnread")
    /\ UNCHANGED <<cards, draws, now, ops>>
    /\ UNCHANGED pairVars
    /\ UNCHANGED clientVars
    /\ UNCHANGED deviceVars
    /\ UNCHANGED cipherVars

\* the cards come back and Math.random picks one of them
SelectCard(k, found) ==
    \E selectedCard \in found :
        DBegin(k, [dloc[k] EXCEPT !.selected = selectedCard], "markRead")

DrawRandomCard_GetUnread(k) ==
    /\ dpc[k] = "getUnread"
    /\ LET unreadCards == GetUnreadCards(dloc[k].pairId)
       IN  IF unreadCards = {}
           THEN DBegin(k, dloc[k], "getAll")
           ELSE SelectCard(k, unreadCards)
    /\ UNCHANGED <<cards, draws, now, ops>>
    /\ UNCHANGED pairVars
    /\ UNCHANGED clientVars
    /\ UNCHANGED deviceVars
    /\ UNCHANGED cipherVars

DrawRandomCard_GetAll(k) ==
    /\ dpc[k] = "getAll"
    /\ IF GetAllCards(dloc[k].pairId) = {}
       THEN DFinish(k, dloc[k], "null")
       ELSE DBegin(k, dloc[k], "resetGetAll")
    /\ UNCHANGED <<cards, draws, now, ops>>
    /\ UNCHANGED pairVars
    /\ UNCHANGED clientVars
    /\ UNCHANGED deviceVars
    /\ UNCHANGED cipherVars

\* resetDeck: the cards are read, one update per card is sent
ResetDeck_GetAll(k) ==
    /\ dpc[k] = "resetGetAll"
    /\ LET allCards == GetAllCards(dloc[k].pairId)
       IN  DBegin(k, [dloc[k] EXCEPT !.pending = allCards],
                  IF allCards = {} THEN "requery" ELSE "resetUpdate")
    /\ UNCHANGED <<cards, draws, now, ops>>
    /\ UNCHANGED pairVars
    /\ UNCHANGED clientVars
    /\ UNCHANGED deviceVars
    /\ UNCHANGED cipherVars

\* resetDeck: the updates of Promise.all land one by one, in any order
ResetDeck_Update(k, c) ==
    /\ dpc[k] = "resetUpdate"
    /\ c \in dloc[k].pending
    /\ cards' = [cards EXCEPT ![c].isRead = FALSE]
    /\ DBegin(k, [dloc[k] EXCEPT !.pending = dloc[k].pending \ {c}],
              IF dloc[k].pending = {c} THEN "requery" ELSE "resetUpdate")
    /\ UNCHANGED <<draws, now, ops>>
    /\ UNCHANGED pairVars
    /\ UNCHANGED clientVars
    /\ UNCHANGED deviceVars
    /\ UNCHANGED cipherVars

DrawRandomCard_Requery(k) ==
    /\ dpc[k] = "requery"
    /\ LET resetUnreadCards == GetUnreadCards(dloc[k].pairId)
       IN  IF resetUnreadCards = {}
           THEN DFinish(k, dloc[k], "null")
           ELSE SelectCard(k, resetUnreadCards)
    /\ UNCHANGED <<cards, draws, now, ops>>
    /\ UNCHANGED pairVars
    /\ UNCHANGED clientVars
    /\ UNCHANGED deviceVars
    /\ UNCHANGED cipherVars

\* selectAndMarkCard: updateDoc(..., {isRead: true})
SelectAndMarkCard_Mark(k) ==
    /\ dpc[k] = "markRead"
    /\ cards' = [cards EXCEPT ![dloc[k].selected].isRead = TRUE]
    /\ DBegin(k, [dloc[k] EXCEPT !.marked = dloc[k].marked \cup {dloc[k].selected}],
              "recordDraw")
    /\ UNCHANGED <<draws, now, ops>>
    /\ UNCHANGED pairVars
    /\ UNCHANGED clientVars
    /\ UNCHANGED deviceVars
    /\ UNCHANGED cipherVars

\* recordDraw: drawnAt is the time of the write
RecordDraw(k) ==
    /\ dpc[k] = "recordDraw"
    /\ draws' = Append(draws, [pairId |-> dloc[k].pairId,
                               cardId |-> dloc[k].selected,
                               viewedBy |-> dloc[k].viewerId,
                               drawnAt |-> now])
    /\ DFinish(k, dloc[k], "card")
    /\ UNCHANGED <<cards, now, ops>>
    /\ UNCHANGED pairVars
    /\ UNCHANGED clientVars
    /\ UNCHANGED deviceVars
    /\ UNCHANGED cipherVars

\* the awaited requests of a draw: getDocs, updateDoc and setDoc
DrawRequests == {"checkCooldown", "getUnread", "getAll", "resetGetAll",
                 "resetUpdate", "requery", "markRead", "recordDraw"}

\* an awaited request rejects: nothing catches it, drawRandomCard rejects
DrawFault(k) ==
    /\ dpc[k] \in DrawRequests
    /\ DFinish(k, dloc[k], "failed")
    /\ UNCHANGED <<cards, draws, now, ops>>
    /\ UNCHANGED pairVars
    /\ UNCHANGED clientVars
    /\ UNCHANGED deviceVars
    /\ UNCHANGED cipherVars

\* the caller takes the result
DrawReturn(k) ==
    /\ dpc[k] = "done"
    /\ dpc' = [dpc EXCEPT ![k] = "idle"]
    /\ dloc' = [dloc EXCEPT ![k] = NoDraw]
    /\ UNCHANGED <<cards, draws, now, ops>>
    /\ UNCHANGED pairVars
    /\ UNCHANGED clientVars
    /\ UNCHANGED deviceVars
    /\ UNCHANGED cipherVars

(***************************************************************************)
(* PartnerProvider and AuthProvider on the client of one identity: the     *)
(* user-change effect, the onSnapshot listener, loadPartner, and the user  *)
(* actions login, logout, acceptInviteCode and breakup.  The other         *)
(* identities act through the store only.                                  *)
(***************************************************************************)
me == uA

ClientPairs == {PairIdOf(me, uB), PairIdOf(me, uAB)}

restVars == <<inviteCodes, usedCodes, now, pc, loc, prevCall>>

\* the identity that forms pair p with me
PartnerIn(p) == CHOOSE v \in Users \ {me} : PairIdOf(me, v) = p

\* getPartner(userId, pairId): null without the pair document
GetPartner(userId, pairId) ==
    IF ~pairs[pairId].exists
    THEN Null
    ELSE IF pairs[pairId].user1Id = userId
         THEN pairs[pairId].user2Id
         ELSE pairs[pairId].user1Id

\* the part of the client that loadPartner and the handlers work on
Current == [ctx |-> ctx, loads |-> loads, hist |-> hist]

Apply(st) ==
    /\ ctx' = st.ctx
    /\ loads' = st.loads
    /\ hist' = st.hist

\* hist: loadPartner was asked for partnerId, with another id in flight or not
Asked(st, partnerId) ==
    [st.hist EXCEPT !.requested = partnerId,
                    !.superseding = \E i \in 1..Len(st.loads) :
                                        st.loads[i].pairId # partnerId]

\* loadPartner(partnerId, userId) up to its await
LoadPartner(st, partnerId) ==
    IF st.ctx.loadingRef
    THEN [st EXCEPT !.hist = Asked(st, partnerId)]
    ELSE IF st.ctx.currentPartnerIdRef = partnerId
    THEN [st EXCEPT !.hist = Asked(st, partnerId)]
    ELSE [ctx |-> [st.ctx EXCEPT !.loadingRef = TRUE,
                                 !.currentPartnerIdRef = partnerId,
                                 !.loading = TRUE],
          loads |-> Append(st.loads, [pairId |-> partnerId, phase |-> "sent",
                                      ok |-> TRUE, data |-> Null]),
          hist |-> Asked(st, partnerId)]

\* the effect on [user?.id, user?.partnerId, user?.connectionStatus]
UserEffect(st, isUser, user) ==
    IF ~isUser
    THEN [st EXCEPT !.ctx = [@ EXCEPT !.partner = Null,
                                      !.connectionStatus = "unpaired",
                                      !.loading = FALSE,
                                      !.loadingRef = FALSE,
                                      !.currentPartnerIdRef = Null],
                    !.hist = NoHistory]
    ELSE LET st1 == [st EXCEPT !.ctx.connectionStatus = user.connectionStatus]
         IN  IF user.partnerId # Null /\ user.connectionStatus = "connected"
             THEN LET st2 == [st1 EXCEPT !.hist.dropped = FALSE,
                                         !.hist.former = user.partnerId]
                  IN  IF st2.ctx.currentPartnerIdRef # user.partnerId
                      THEN LoadPartner(st2, user.partnerId)
                      ELSE st2
             ELSE [st1 EXCEPT !.ctx = [@ EXCEPT !.partner = Null,
                                                !.loading = FALSE,
                                                !.loadingRef = FALSE,
                                                !.currentPartnerIdRef = Null],
                              !.hist = [@ EXCEPT !.requested = Null,
                                                 !.superseding = FALSE]]

\* the onSnapshot callback, given the document it is handed
SnapshotHandler(st, userData) ==
    LET st1 == [st EXCEPT !.ctx.connectionStatus = userData.connectionStatus]
    IN  IF userData.partnerId # Null /\ userData.connectionStatus = "connected"
        THEN LET st2 == [st1 EXCEPT !.hist.dropped = FALSE,
                                    !.hist.former = userData.partnerId]
             IN  IF st2.ctx.currentPartnerIdRef # userData.partnerId
                 THEN LoadPartner(st2, userData.partnerId)
                 ELSE st2
        ELSE [st1 EXCEPT !.ctx = [@ EXCEPT !.partner = Null,
                                           !.currentPartnerIdRef = Null],
                         !.hist = [@ EXCEPT !.dropped = TRUE,
                                            !.requested = Null,
                                            !.superseding = FALSE]]

\* the read-back of acceptInviteCode, given the document it read
ReadbackHandler(st, userData) ==
    LET st1 == [st EXCEPT !.ctx.connectionStatus = userData.connectionStatus]
    IN  IF userData.partnerId # Null /\ userData.connectionStatus = "connected"
        THEN LoadPartner([st1 EXCEPT !.hist.dropped = FALSE,
                                     !.hist.former = userData.partnerId],
                         userData.partnerId)
        ELSE st1

\* the listener runs with the latest document
Deliver ==
    /\ subscriptions > 0
    /\ feedPending
    /\ feedPending' = FALSE
    /\ Apply(SnapshotHandler(Current, users[me]))
    /\ UNCHANGED <<loggedIn, subscriptions, cpc, readback, ops>>
    /\ UNCHANGED <<users, localUser, pairs, sharedSecretCache>>
    /\ UNCHANGED restVars
    /\ UNCHANGED deviceVars
    /\ UNCHANGED cipherVars
    /\ UNCHANGED deckVars

\* getPartner reads the store
Load_Read(i) ==
    /\ i \in 1..Len(loads)
    /\ loads[i].phase = "sent"
    /\ \E ok \in BOOLEAN :
          loads' = [loads EXCEPT ![i] =
              [@ EXCEPT !.phase = "read", !.ok = ok,
                        !.data = IF ok THEN GetPartner(me, loads[i].pairId)
                                 ELSE Null]]
    /\ UNCHANGED <<loggedIn, ctx, subscriptions, feedPending, cpc, readback,
                   hist, ops>>
    /\ UNCHANGED <<users, localUser, pairs, sharedSecretCache>>
    /\ UNCHANGED restVars
    /\ UNCHANGED deviceVars
    /\ UNCHANGED cipherVars
    /\ UNCHANGED deckVars

Without(l, i) == SubSeq(l, 1, i - 1) \o SubSeq(l, i + 1, Len(l))

Load_Again(i) ==
    /\ i \in 1..Len(loads)
    /\ loads[i].phase = "read"
    /\ loads' = [loads EXCEPT ![i].phase = "sent"]
    /\ UNCHANGED <<loggedIn, ctx, subscriptions, feedPending, cpc, readback,
                   hist, ops>>
    /\ UNCHANGED <<users, localUser, pairs, sharedSecretCache>>
    /\ UNCHANGED restVars
    /\ UNCHANGED deviceVars
    /\ UNCHANGED cipherVars
    /\ UNCHANGED deckVars

\* loadPartner after its await: setPartner, catch, finally
Load_Done(i) ==
    /\ i \in 1..Len(loads)
    /\ loads[i].phase = "read"
    /\ loads' = Without(loads, i)
    /\ ctx' = IF loads[i].ok
              THEN [ctx EXCEPT !.partner = loads[i].data,
                               !.loading = FALSE,
                               !.loadingRef = FALSE]
              ELSE [ctx EXCEPT !.partner = Null,
                               !.currentPartnerIdRef = Null,
                               !.loading = FALSE,
                               !.loadingRef = FALSE]
    /\ hist' = [hist EXCEPT !.failed = @ \/ ~loads[i].ok]
    /\ UNCHANGED <<loggedIn, subscriptions, feedPending, cpc, readback, ops>>
    /\ UNCHANGED <<users, localUser, pairs, sharedSecretCache>>
    /\ UNCHANGED restVars
    /\ UNCHANGED deviceVars
    /\ UNCHANGED cipherVars
    /\ UNCHANGED deckVars

StartAction(name) ==
    /\ cpc = "idle"
    /\ ops > 0
    /\ ops' = ops - 1
    /\ cpc' = name

\* AuthContext.login is called
Login_Start ==
    /\ ~loggedIn
    /\ StartAction("login")
    /\ UNCHANGED <<loggedIn, ctx, subscriptions, feedPending, loads, readback,
                   hist>>
    /\ UNCHANGED <<users, localUser, pairs, sharedSecretCache>>
    /\ UNCHANGED restVars
    /\ UNCHANGED deviceVars
    /\ UNCHANGED cipherVars
    /\ UNCHANGED deckVars

\* authService.login has read the document: setUser, then both effects
Login_Done ==
    /\ cpc = "login"
    /\ cpc' = "idle"
    /\ loggedIn' = TRUE
    /\ localUser' = [localUser EXCEPT ![me] = users[me]]
    /\ Apply(UserEffect(Current, TRUE, users[me]))
    /\ subscriptions' = subscriptions + 1
    /\ feedPending' = TRUE
    /\ UNCHANGED <<readback, ops>>
    /\ UNCHANGED <<users, pairs, sharedSecretCache>>
    /\ UNCHANGED restVars
    /\ UNCHANGED deviceVars
    /\ UNCHANGED cipherVars
    /\ UNCHANGED deckVars

\* AuthContext.logout is called
Logout_Start ==
    /\ loggedIn
    /\ StartAction("logout")
    /\ UNCHANGED <<loggedIn, ctx, subscriptions, feedPending, loads, readback,
                   hist>>
    /\ UNCHANGED <<users, localUser, pairs, sharedSecretCache>>
    /\ UNCHANGED restVars
    /\ UNCHANGED deviceVars
    /\ UNCHANGED cipherVars
    /\ UNCHANGED deckVars

KeepListener(n) == n

\* the cleanup of the listener effect: unsubscribe()
Unsubscribe(n) == n - 1

\* authService.logout has signed out and cleared every secret: setUser(null),
\* then the user-change effect and the cleanup of the listener effect
Logout_Done ==
    /\ cpc = "logout"
    /\ cpc' = "idle"
    /\ loggedIn' = FALSE
    /\ localUser' = [localUser EXCEPT ![me] = NoUser]
    /\ sharedSecretCache' =
          [sharedSecretCache EXCEPT ![me] = [p \in PairKeys |-> NoSecret]]
    /\ Apply([UserEffect(Current, FALSE, NoUser) EXCEPT !.hist.evicted =
                 \E p \in PairKeys : sharedSecretCache[me][p] # NoSecret])
    /\ subscriptions' = Unsubscribe(subscriptions)
    /\ feedPending' = FALSE
    /\ UNCHANGED <<readback, ops>>
    /\ UNCHANGED <<users, pairs>>
    /\ UNCHANGED restVars
    /\ UNCHANGED deviceVars
    /\ UNCHANGED cipherVars
    /\ UNCHANGED deckVars

\* acceptInviteCode(code, currentUser) goes through for a code of inviter
ServiceAccepts(inviter, accepter, currentUser) ==
    LET pairId == PairIdOf(inviter, accepter)
    IN  /\ ~AccepterAlreadyPaired(currentUser, pairId)
        /\ ~InviterAlreadyPaired(users[inviter].partnerId, pairId)
        /\ pairs[pairId].exists => PairIsValid(pairs[pairId], inviter, accepter)

\* the documents after the writes of an acceptInviteCode that went through
AcceptedUsers(inviter, accepter, currentUser) ==
    LET pairId == PairIdOf(inviter, accepter)
    IN  [users EXCEPT
           ![inviter] = ConnectedFields(pairId),
           ![accepter] = IF pairs[pairId].exists
                            /\ ~NeedSelfUpdate(currentUser, pairId)
                         THEN @
                         ELSE ConnectedFields(pairId)]

AcceptedPairs(inviter, accepter) ==
    [pairs EXCEPT ![PairIdOf(inviter, accepter)] = NewPairData(inviter, accepter)]

\* the documents after the writes of a breakup that went through
BrokenUsers(pairId) ==
    [users EXCEPT ![pairs[pairId].user1Id] = BrokenFields,
                  ![pairs[pairId].user2Id] = BrokenFields]

BrokenPairs(pairId) == [pairs EXCEPT ![pairId] = NoPair]

\* a write to users/{me} reaches the listener, if one is attached
Notify == feedPending' = (subscriptions > 0)

\* PartnerContext.acceptInviteCode up to setTimeout: the service has written
Accept_Call(p) ==
    /\ loggedIn
    /\ readback = "none"
    /\ ServiceAccepts(PartnerIn(p), me, localUser[me])
    /\ StartAction("idle")
    /\ users' = AcceptedUsers(PartnerIn(p), me, localUser[me])
    /\ pairs' = AcceptedPairs(PartnerIn(p), me)
    /\ Notify
    /\ readback' = "timer"
    /\ UNCHANGED <<loggedIn, ctx, subscriptions, loads, hist>>
    /\ UNCHANGED <<localUser, sharedSecretCache>>
    /\ UNCHANGED restVars
    /\ UNCHANGED deviceVars
    /\ UNCHANGED cipherVars
    /\ UNCHANGED deckVars

\* the timer of acceptInviteCode: getDoc, setConnectionStatus, loadPartner;
\* after the sign-out the read is answered or rejected
Readback_Fire ==
    /\ readback = "timer"
    /\ readback' = "none"
    /\ \E granted \in {TRUE, loggedIn} :
          Apply(IF granted THEN ReadbackHandler(Current, users[me]) ELSE Current)
    /\ UNCHANGED <<loggedIn, subscriptions, feedPending, cpc, ops>>
    /\ UNCHANGED <<users, localUser, pairs, sharedSecretCache>>
    /\ UNCHANGED restVars
    /\ UNCHANGED deviceVars
    /\ UNCHANGED cipherVars
    /\ UNCHANGED deckVars

\* PartnerContext.breakup is called
ClientBreakup_Call ==
    /\ loggedIn
    /\ localUser[me].partnerId # Null
    /\ StartAction("breakup")
    /\ UNCHANGED <<loggedIn, ctx, subscriptions, feedPending, loads, readback,
                   hist>>
    /\ UNCHANGED <<users, localUser, pairs, sharedSecretCache>>
    /\ UNCHANGED restVars
    /\ UNCHANGED deviceVars
    /\ UNCHANGED cipherVars
    /\ UNCHANGED deckVars

\* partnerService.breakup(user.id, user.partnerId) runs; it throws without the
\* pair document
ClientBreakup_Service ==
    /\ cpc = "breakup"
    /\ LET p == localUser[me].partnerId
       IN  IF ~pairs[p].exists \/ NotPartOfPair(pairs[p], me)
           THEN /\ cpc' = "idle"
                /\ UNCHANGED <<users, pairs, sharedSecretCache, feedPending>>
           ELSE /\ cpc' = "breakup_set"
                /\ users' = BrokenUsers(p)
                /\ pairs' = BrokenPairs(p)
                /\ sharedSecretCache' = [sharedSecretCache EXCEPT ![me] =
                                            ClearSharedSecret(@, p)]
                /\ Notify
    /\ UNCHANGED <<loggedIn, ctx, subscriptions, loads, readback, hist, ops>>
    /\ UNCHANGED localUser
    /\ UNCHANGED restVars
    /\ UNCHANGED deviceVars
    /\ UNCHANGED cipherVars
    /\ UNCHANGED deckVars

\* PartnerContext.breakup after its await: setPartner(null),
\* setConnectionStatus('broken')
ClientBreakup_Set ==
    /\ cpc = "breakup_set"
    /\ cpc' = "idle"
    /\ ctx' = [ctx EXCEPT !.partner = Null, !.connectionStatus = "broken"]
    /\ UNCHANGED <<loggedIn, subscriptions, feedPending, loads, readback, hist,
                   ops>>
    /\ UNCHANGED <<users, localUser, pairs, sharedSecretCache>>
    /\ UNCHANGED restVars
    /\ UNCHANGED deviceVars
    /\ UNCHANGED cipherVars
    /\ UNCHANGED deckVars

\* the other identity of p accepts a code of me from its own client
RemoteAccept(p) ==
    /\ ops > 0
    /\ ops' = ops - 1
    /\ ServiceAccepts(me, PartnerIn(p), users[PartnerIn(p)])
    /\ users' = AcceptedUsers(me, PartnerIn(p), users[PartnerIn(p)])
    /\ pairs' = AcceptedPairs(me, PartnerIn(p))
    /\ Notify
    /\ UNCHANGED <<loggedIn, ctx, subscriptions, loads, cpc, readback, hist>>
    /\ UNCHANGED <<localUser, sharedSecretCache>>
    /\ UNCHANGED restVars
    /\ UNCHANGED deviceVars
    /\ UNCHANGED cipherVars
    /\ UNCHANGED deckVars

\* the other identity of p breaks up from its own client
RemoteBreakup(p) ==
    /\ ops > 0
    /\ ops' = ops - 1
    /\ pairs[p].exists
    /\ users' = BrokenUsers(p)
    /\ pairs' = BrokenPairs(p)
    /\ Notify
    /\ UNCHANGED <<loggedIn, ctx, subscriptions, loads, cpc, readback, hist>>
    /\ UNCHANGED <<localUser, sharedSecretCache>>
    /\ UNCHANGED restVars
    /\ UNCHANGED deviceVars
    /\ UNCHANGED cipherVars
    /\ UNCHANGED deckVars

\* HomeScreen.handleDrawCard derives the secret for user.partnerId
UseSecret ==
    /\ loggedIn
    /\ ops > 0
    /\ ops' = ops - 1
    /\ localUser[me].partnerId # Null
    /\ ctx.partner # Null
    /\ sharedSecretCache' =
          [sharedSecretCache EXCEPT ![me][localUser[me].partnerId] =
              DeriveSharedSecret(PublicKey(ctx.partner), PrivateKey(me))]
    /\ UNCHANGED clientVars
    /\ UNCHANGED <<users, localUser, pairs>>
    /\ UNCHANGED restVars
    /\ UNCHANGED deviceVars
    /\ UNCHANGED cipherVars
    /\ UNCHANGED deckVars

(***************************************************************************)
(* EncryptionService: secretbox over byte arrays, the nonce in front of    *)
(* the box, base64 for storage, UTF-8 for text.  A byte of a nonce is      *)
(* <<v>>, a byte of a box is <<i, key, nonce, message>>: a box opens only  *)
(* under the key and the nonce it was made with.                           *)
(***************************************************************************)
NONCE_LENGTH == 24
OVERHEAD_LENGTH == 16

\* nacl.randomBytes(24)
RandomBytes(v) == [i \in 1..NONCE_LENGTH |-> <<v>>]

\* nacl.secretbox(message, nonce, key): authenticator and ciphertext
Secretbox(message, nonce, key) ==
    [i \in 1..(OVERHEAD_LENGTH + Len(message)) |-> <<i, key, nonce, message>>]

\* nacl.secretbox.open(box, nonce, key): the message, or null
SecretboxOpen(encrypted, nonce, key) ==
    IF /\ Len(encrypted) >= OVERHEAD_LENGTH
       /\ Len(encrypted[1]) = 4
       /\ encrypted = Secretbox(encrypted[1][4], nonce, key)
    THEN [opened |-> TRUE, message |-> encrypted[1][4]]
    ELSE [opened |-> FALSE, message |-> << >>]

\* Uint8Array.slice(start, end) and slice(start)
Min(a, b) == IF a < b THEN a ELSE b
Slice(bytes, start, end) == SubSeq(bytes, start + 1, Min(end, Len(bytes)))
SliceFrom(bytes, start) == SubSeq(bytes, start + 1, Len(bytes))

\* tweetnacl-util encodeBase64 / decodeBase64
EncodeBase64(bytes) == <<"base64", bytes>>
DecodeBase64(string) == string[2]

\* the UTF-8 codec: code units below 128 take one byte, below 2048 two
RECURSIVE DecodeUTF8(_)
DecodeUTF8(text) ==
    IF text = << >> THEN << >>
    ELSE (IF Head(text) < 128
          THEN <<Head(text)>>
          ELSE <<192 + (Head(text) \div 64), 128 + (Head(text) % 64)>>)
         \o DecodeUTF8(Tail(text))

RECURSIVE EncodeUTF8(_)
EncodeUTF8(bytes) ==
    IF bytes = << >> THEN << >>
    ELSE IF Head(bytes) < 128
         THEN <<Head(bytes)>> \o EncodeUTF8(Tail(bytes))
         ELSE <<(Head(bytes) - 192) * 64 + (bytes[2] - 128)>>
              \o EncodeUTF8(Tail(Tail(bytes)))

Returned(value) == [outcome |-> "ok", value |-> value]
Thrown(error) == [outcome |-> error, value |-> << >>]

\* encryptText(text, sharedSecret), with the nonce it draws
EncryptText(text, sharedSecret, nonce, util) ==
    IF ~util
    THEN Thrown("TypeError")
    ELSE LET messageBytes == DecodeUTF8(text)
             encrypted == Secretbox(messageBytes, nonce, sharedSecret)
             combined == nonce \o encrypted
         IN  Returned(EncodeBase64(combined))

\* decryptText(encryptedBase64, sharedSecret)
DecryptText(encryptedBase64, sharedSecret, util) ==
    LET combined == DecodeBase64(encryptedBase64)
        nonce == Slice(combined, 0, NONCE_LENGTH)
        encrypted == SliceFrom(combined, NONCE_LENGTH)
    IN  IF Len(nonce) # NONCE_LENGTH
        THEN Thrown("bad nonce size")
        ELSE LET decrypted == SecretboxOpen(encrypted, nonce, sharedSecret)
             IN  IF ~decrypted.opened
                 THEN Thrown("Decryption failed")
                 ELSE IF ~util
                 THEN Thrown("TypeError")
                 ELSE Returned(EncodeUTF8(decrypted.message))

\* decryptCard(card, sharedSecret) for a text card
DecryptCard(encryptedContent, sharedSecret, util) ==
    DecryptText(encryptedContent, sharedSecret, util)

\* encryptVoiceFile(audioData, sharedSecret), with the nonce it draws
EncryptVoiceFile(audioBytes, sharedSecret, nonce) ==
    [encryptedData |-> Secretbox(audioBytes, nonce, sharedSecret),
     nonce |-> nonce]

\* createVoiceCard: nonce and box joined and stored as base64
StoredVoice(audioBytes, sharedSecret, nonce) ==
    LET sealed == EncryptVoiceFile(audioBytes, sharedSecret, nonce)
        combined == sealed.nonce \o sealed.encryptedData
    IN  EncodeBase64(combined)

\* decryptVoiceFile(encryptedData, nonce, sharedSecret)
DecryptVoiceFile(encryptedData, nonce, sharedSecret) ==
    IF Len(nonce) # NONCE_LENGTH
    THEN Thrown("bad nonce size")
    ELSE LET decrypted == SecretboxOpen(encryptedData, nonce, sharedSecret)
         IN  IF ~decrypted.opened
             THEN Thrown("Voice decryption failed")
             ELSE Returned(decrypted.message)

\* handlePlayVoice: decodeBase64, the split at 24 bytes, decryptVoiceFile
PlayVoice(base64String, sharedSecret) ==
    LET encryptedData == DecodeBase64(base64String)
        nonce == Slice(encryptedData, 0, NONCE_LENGTH)
        encrypted == SliceFrom(encryptedData, NONCE_LENGTH)
    IN  DecryptVoiceFile(encrypted, nonce, sharedSecret)

\* the inputs of the cipher: keys, nonces, texts and recordings
Keys == {1, 2}
Nonces == {RandomBytes(0), RandomBytes(1)}
SeqsUpTo(S, n) == UNION {[1..m -> S] : m \in 0..n}
Texts == SeqsUpTo({65, 233}, MaxPayload)
Recordings == SeqsUpTo({0, 255}, MaxPayload)

\* the lengths a stored value is cut to before it is read back
Cuts(stored) ==
    LET n == Len(DecodeBase64(stored))
    IN  {0, NONCE_LENGTH - 1, NONCE_LENGTH, NONCE_LENGTH + OVERHEAD_LENGTH - 1,
         n - 1} \cap 0..(n - 1)

MalformedLengths ==
    {0, NONCE_LENGTH - 1, NONCE_LENGTH, NONCE_LENGTH + OVERHEAD_LENGTH}

CutTo(stored, n) == EncodeBase64(Slice(DecodeBase64(stored), 0, n))

CipherQuiet(op) ==
    /\ cipher.op = op
    /\ ops > 0
    /\ ops' = ops - 1
    /\ UNCHANGED pairVars
    /\ UNCHANGED <<now>>
    /\ UNCHANGED deckVars
    /\ UNCHANGED clientVars
    /\ UNCHANGED deviceVars

\* a text is encrypted
Cipher_EncryptText(text, key, nonce) ==
    /\ CipherQuiet("none")
    /\ LET result == EncryptText(text, key, nonce, naclUtil)
       IN  cipher' = [NoCipher EXCEPT !.op = "encrypted", !.kind = "text",
                         !.payload = text, !.key = key,
                         !.stored = result.value, !.outcome = result.outcome]
    /\ UNCHANGED naclUtil

\* a recording is encrypted and stored
Cipher_StoreVoice(audioBytes, key, nonce) ==
    /\ CipherQuiet("none")
    /\ cipher' = [NoCipher EXCEPT !.op = "encrypted", !.kind = "voice",
                     !.payload = audioBytes, !.key = key,
                     !.stored = StoredVoice(audioBytes, key, nonce),
                     !.outcome = "ok"]
    /\ UNCHANGED naclUtil

\* the stored value is damaged: only its first n bytes are left
Cipher_Cut(n) ==
    /\ CipherQuiet("encrypted")
    /\ cipher.outcome = "ok"
    /\ cipher.cut = 0
    /\ n \in Cuts(cipher.stored)
    /\ cipher' = [cipher EXCEPT !.stored = CutTo(@, n), !.cut = 1]
    /\ UNCHANGED naclUtil

\* a text card arrives whose content is n bytes that no encryption produced
Cipher_Malformed(n) ==
    /\ CipherQuiet("none")
    /\ cipher' = [NoCipher EXCEPT !.op = "encrypted", !.kind = "text",
                     !.stored = EncodeBase64([i \in 1..n |-> <<0>>]),
                     !.cut = 1, !.outcome = "ok"]
    /\ UNCHANGED naclUtil

\* the stored value is decrypted under key2
Cipher_Decrypt(key2) ==
    /\ CipherQuiet("encrypted")
    /\ cipher.outcome = "ok"
    /\ LET result == IF cipher.kind = "text"
                     THEN DecryptCard(cipher.stored, key2, naclUtil)
                     ELSE PlayVoice(cipher.stored, key2)
       IN  cipher' = [cipher EXCEPT !.op = "decrypted", !.key2 = key2,
                         !.outcome = result.outcome, !.value = result.value]
    /\ UNCHANGED naclUtil

NextCipher ==
    \/ \E text \in Texts : \E key \in Keys : \E nonce \in Nonces :
          Cipher_EncryptText(text, key, nonce)
    \/ \E audioBytes \in Recordings : \E key \in Keys : \E nonce \in Nonces :
          Cipher_StoreVoice(audioBytes, key, nonce)
    \/ \E n \in 0..(NONCE_LENGTH + OVERHEAD_LENGTH + 2 * MaxPayload) :
          Cipher_Cut(n)
    \/ \E n \in MalformedLengths : Cipher_Malformed(n)
    \/ \E key2 \in Keys : Cipher_Decrypt(key2)

InitCipher ==
    /\ InitDocuments
    /\ naclUtil \in BOOLEAN
    /\ cipher = NoCipher
    /\ ops = MaxOpsCipher

SpecCipher == InitCipher /\ [][NextCipher]_vars

(***************************************************************************)
(* The devices: AuthService.register, login and logout, the private key    *)
(* in AsyncStorage, and EncryptionService.getSharedSecret with its cache.  *)
(***************************************************************************)
\* encryptionService.generateKeyPair()
GenerateKeyPair(u) == [publicKey |-> PublicKey(u), privateKey |-> PrivateKey(u)]

PrivateKeyOf(keypair) == keypair.privateKey

\* userData.publicKey of register
UserDataKey(keypair) == keypair.publicKey

\* the user object as JSON under '@lovenotes:user'
UserJson(u, publicKey) == <<u, publicKey>>

\* register on device d: keypair, storePrivateKey, setDoc, cache of the user
Register(u, d) ==
    /\ ops > 0
    /\ ops' = ops - 1
    /\ authUser[d] = Null
    /\ published.users[u] = Null
    /\ LET keypair == GenerateKeyPair(u)
       IN  /\ asyncStorage' = [asyncStorage EXCEPT
                 ![d].privateKey = keypair.privateKey,
                 ![d].user = UserJson(u, UserDataKey(keypair))]
           /\ published' = [published EXCEPT !.users[u] = UserDataKey(keypair)]
    /\ authUser' = [authUser EXCEPT ![d] = u]
    /\ generatedOn' = [generatedOn EXCEPT ![u] = d]
    /\ authState' = [authState EXCEPT ![d] =
                        [user |-> u, changed |-> TRUE, failed |-> FALSE]]
    /\ UNCHANGED <<deviceCache, secretCalls, derivations>>
    /\ UNCHANGED pairVars
    /\ UNCHANGED <<now>>
    /\ UNCHANGED deckVars
    /\ UNCHANGED clientVars
    /\ UNCHANGED cipherVars

\* login on device d: sign-in, getDoc, the check of the private key, cache
DeviceLogin(u, d) ==
    /\ ops > 0
    /\ ops' = ops - 1
    /\ authUser[d] = Null
    /\ published.users[u] # Null
    /\ authUser' = [authUser EXCEPT ![d] = u]
    /\ asyncStorage' = IF asyncStorage[d].privateKey = Null
                       THEN asyncStorage
                       ELSE [asyncStorage EXCEPT
                               ![d].user = UserJson(u, published.users[u])]
    /\ authState' = [authState EXCEPT ![d] =
                        IF asyncStorage[d].privateKey = Null
                        THEN [@ EXCEPT !.changed = TRUE, !.failed = TRUE]
                        ELSE [user |-> u, changed |-> TRUE, failed |-> FALSE]]
    /\ UNCHANGED <<published, deviceCache, secretCalls, derivations,
                   generatedOn>>
    /\ UNCHANGED pairVars
    /\ UNCHANGED <<now>>
    /\ UNCHANGED deckVars
    /\ UNCHANGED clientVars
    /\ UNCHANGED cipherVars

\* the calls of a device that are suspended in their derivation for one of
\* pairIds remember that the cache was cleared under them
ClearedUnder(calls, pairIds) ==
    [k \in CallSlots |->
        IF calls[k].at \in {"getPrivateKey", "set"} /\ calls[k].pairId \in pairIds
        THEN [calls[k] EXCEPT !.cleared = TRUE]
        ELSE calls[k]]

\* clearSharedSecret(pairId): one entry, or all of them without an argument
EvictAll(cache) == [p \in PairKeys |-> NoSecret]

\* logout on device d: signOut, removeItem(user), clearSharedSecret()
DeviceLogout(d) ==
    /\ ops > 0
    /\ ops' = ops - 1
    /\ authUser[d] # Null
    /\ authUser' = [authUser EXCEPT ![d] = Null]
    /\ asyncStorage' = [asyncStorage EXCEPT ![d].user = Null]
    /\ deviceCache' = [deviceCache EXCEPT ![d] = EvictAll(@)]
    /\ derivations' = [derivations EXCEPT ![d] = [p \in PairKeys |-> NoDerivation]]
    /\ secretCalls' = [secretCalls EXCEPT ![d] = ClearedUnder(@, PairKeys)]
    /\ authState' = [authState EXCEPT ![d] =
                        [user |-> Null, changed |-> TRUE, failed |-> FALSE]]
    /\ UNCHANGED <<published, generatedOn>>
    /\ UNCHANGED pairVars
    /\ UNCHANGED <<now>>
    /\ UNCHANGED deckVars
    /\ UNCHANGED clientVars
    /\ UNCHANGED cipherVars

\* breakup on device d ends with clearSharedSecret(pairId)
Evict(d, pairId) ==
    /\ ops > 0
    /\ ops' = ops - 1
    /\ authUser[d] # Null
    /\ deviceCache[d][pairId] # NoSecret
    /\ deviceCache' = [deviceCache EXCEPT ![d] = ClearSharedSecret(@, pairId)]
    /\ derivations' = [derivations EXCEPT ![d][pairId] = NoDerivation]
    /\ secretCalls' = [secretCalls EXCEPT ![d] = ClearedUnder(@, {pairId})]
    /\ UNCHANGED <<authUser, asyncStorage, published, generatedOn, authState>>
    /\ UNCHANGED pairVars
    /\ UNCHANGED <<now>>
    /\ UNCHANGED deckVars
    /\ UNCHANGED clientVars
    /\ UNCHANGED cipherVars

\* generateInviteCode(user.id, user.publicKey) writes the public key of the
\* user object into the invite document
PublishInvite(d) ==
    /\ ops > 0
    /\ ops' = ops - 1
    /\ authUser[d] # Null
    /\ asyncStorage[d].user # Null
    /\ published' = [published EXCEPT
                        !.inviteCodes = @ \cup {asyncStorage[d].user[2]}]
    /\ UNCHANGED <<authUser, asyncStorage, deviceCache, secretCalls,
                   derivations, generatedOn, authState>>
    /\ UNCHANGED pairVars
    /\ UNCHANGED <<now>>
    /\ UNCHANGED deckVars
    /\ UNCHANGED clientVars
    /\ UNCHANGED cipherVars

\* getCurrentUser on device d: the cached user object if it is of the user
\* signed in, else the user document, which is then cached
GetCurrentUser(storage, firebaseUser) ==
    IF storage.user # Null /\ storage.user[1] = firebaseUser
    THEN storage
    ELSE [storage EXCEPT !.user = UserJson(firebaseUser,
                                           published.users[firebaseUser])]

\* the onAuthStateChanged callback of AuthProvider on device d
AuthStateChanged(d) ==
    /\ authState[d].changed
    /\ IF authUser[d] # Null
       THEN /\ asyncStorage' = [asyncStorage EXCEPT
                                  ![d] = GetCurrentUser(@, authUser[d])]
            /\ authState' = [authState EXCEPT ![d].user = authUser[d],
                                              ![d].changed = FALSE]
       ELSE /\ authState' = [authState EXCEPT ![d].user = Null,
                                              ![d].changed = FALSE]
            /\ UNCHANGED asyncStorage
    /\ UNCHANGED <<authUser, published, deviceCache, secretCalls, derivations,
                   generatedOn, ops>>
    /\ UNCHANGED pairVars
    /\ UNCHANGED <<now>>
    /\ UNCHANGED deckVars
    /\ UNCHANGED clientVars
    /\ UNCHANGED cipherVars

\* createVoiceCard on device d with the cached secret of the pair: the
\* recording goes into the card document encrypted
SaveVoiceCard(d, pairId, audioBytes, nonce) ==
    /\ ops > 0
    /\ ops' = ops - 1
    /\ authUser[d] # Null
    /\ deviceCache[d][pairId] # NoSecret
    /\ published' = [published EXCEPT !.cards = @ \cup
                        {StoredVoice(audioBytes, deviceCache[d][pairId], nonce)}]
    /\ UNCHANGED <<authUser, asyncStorage, deviceCache, secretCalls,
                   derivations, generatedOn, authState>>
    /\ UNCHANGED pairVars
    /\ UNCHANGED <<now>>
    /\ UNCHANGED deckVars
    /\ UNCHANGED clientVars
    /\ UNCHANGED cipherVars

CacheNeverHas(cache, pairId) == FALSE

\* sharedSecretCache.has(pairId)
CacheHas(cache, pairId) == cache[pairId] # NoSecret

SecretFinish(d, k, call, result) ==
    secretCalls' = [secretCalls EXCEPT ![d][k] =
                       [call EXCEPT !.at = "done", !.result = result]]

\* getSharedSecret(pairId, partnerPublicKey): the look into the cache
Secret_Call(d, k, v) ==
    /\ ops > 0
    /\ ops' = ops - 1
    /\ authUser[d] # Null
    /\ v # authUser[d]
    /\ published.users[v] # Null
    /\ secretCalls[d][k].at = "idle"
    /\ LET pairId == PairIdOf(authUser[d], v)
           call == [NoSecretCall EXCEPT !.pairId = pairId,
                       !.partnerPublicKey = published.users[v],
                       !.cacheBefore = deviceCache[d][pairId]]
       IN  IF CacheHas(deviceCache[d], pairId)
           THEN /\ SecretFinish(d, k, [call EXCEPT
                                          !.value = deviceCache[d][pairId]], "hit")
                /\ derivations' = [derivations EXCEPT ![d][pairId].values =
                                      @ \cup {deviceCache[d][pairId]}]
           ELSE /\ secretCalls' = [secretCalls EXCEPT ![d][k] =
                                      [call EXCEPT !.at = "getPrivateKey"]]
                /\ UNCHANGED derivations
    /\ UNCHANGED <<authUser, asyncStorage, published, deviceCache, generatedOn, authState>>
    /\ UNCHANGED pairVars
    /\ UNCHANGED <<now>>
    /\ UNCHANGED deckVars
    /\ UNCHANGED clientVars
    /\ UNCHANGED cipherVars

\* deriveSharedSecret: getPrivateKey has answered; nacl.box.before
Secret_GetPrivateKey(d, k) ==
    /\ secretCalls[d][k].at = "getPrivateKey"
    /\ LET call == secretCalls[d][k]
           privateKeyBase64 == asyncStorage[d].privateKey
       IN  IF privateKeyBase64 = Null
           THEN /\ SecretFinish(d, k, [call EXCEPT !.readKey = TRUE], "KeyMissing")
                /\ UNCHANGED derivations
           ELSE /\ secretCalls' = [secretCalls EXCEPT ![d][k] =
                      [call EXCEPT !.at = "set", !.readKey = TRUE,
                                   !.privateKey = privateKeyBase64,
                                   !.value = DeriveSharedSecret(
                                       call.partnerPublicKey, privateKeyBase64)]]
                /\ derivations' = [derivations EXCEPT
                                      ![d][call.pairId].count = @ + 1]
    /\ UNCHANGED <<authUser, asyncStorage, published, deviceCache, generatedOn, authState,
                   ops>>
    /\ UNCHANGED pairVars
    /\ UNCHANGED <<now>>
    /\ UNCHANGED deckVars
    /\ UNCHANGED clientVars
    /\ UNCHANGED cipherVars

\* getSharedSecret after its await: sharedSecretCache.set, return
Secret_Set(d, k) ==
    /\ secretCalls[d][k].at = "set"
    /\ LET call == secretCalls[d][k]
       IN  /\ deviceCache' = [deviceCache EXCEPT ![d][call.pairId] = call.value]
           /\ derivations' = [derivations EXCEPT ![d][call.pairId].values =
                                 @ \cup {call.value}]
           /\ SecretFinish(d, k, call, "derived")
    /\ UNCHANGED <<authUser, asyncStorage, published, generatedOn, authState, ops>>
    /\ UNCHANGED pairVars
    /\ UNCHANGED <<now>>
    /\ UNCHANGED deckVars
    /\ UNCHANGED clientVars
    /\ UNCHANGED cipherVars

\* the caller takes the result
Secret_Return(d, k) ==
    /\ secretCalls[d][k].at = "done"
    /\ secretCalls' = [secretCalls EXCEPT ![d][k] = NoSecretCall]
    /\ UNCHANGED <<authUser, asyncStorage, published, deviceCache, derivations,
                   generatedOn, authState, ops>>
    /\ UNCHANGED pairVars
    /\ UNCHANGED <<now>>
    /\ UNCHANGED deckVars
    /\ UNCHANGED clientVars
    /\ UNCHANGED cipherVars

(***************************************************************************)
(* The specifications.                                                     *)
(***************************************************************************)
ClockDeltas == {1, SevenDaysMs}

StartCall ==
    \/ \E u \in Users : GenerateInviteCode(u)
    \/ \E u \in Users : \E c \in Codes : AcceptInviteCode_Start(u, c)
    \/ \E u \in Users : \E p \in PairIds : Breakup_Start(u, p)
    \/ \E u \in Users : RefreshUser(u)

\* the steps a call can take when calls neither overlap nor fail: the
\* inviter's document is then never behind an existing pair
StepWhole ==
    \/ \E u \in Users : AcceptInviteCode_GetInviter(u)
    \/ \E u \in Users : AcceptInviteCode_GetPair(u)
    \/ \E u \in Users : AcceptInviteCode_IdemSelf(u)
    \/ \E u \in Users : AcceptInviteCode_IdemDelete(u)
    \/ \E u \in Users : AcceptInviteCode_SetPair(u)
    \/ \E u \in Users : AcceptInviteCode_UpdInviter(u)
    \/ \E u \in Users : AcceptInviteCode_UpdSelf(u)
    \/ \E u \in Users : AcceptInviteCode_Delete(u)
    \/ \E u \in Users : Breakup_Upd1(u)
    \/ \E u \in Users : Breakup_Upd2(u)
    \/ \E u \in Users : Breakup_Delete(u)
    \/ \E u \in Users : Breakup_Clear(u)

StepCall ==
    \/ StepWhole
    \/ \E u \in Users : AcceptInviteCode_IdemInviter(u)

StartSecret == \E u \in Users : \E v \in Users : GetSharedSecret_Start(u, v)

StepSecret == \E u \in Users : GetSharedSecret_Derive(u)

\* the clients' pairing calls, interleaved at every await
Next == StartCall \/ StepCall \/ \E u \in Users : Return(u)

Spec == Init /\ [][Next]_vars

\* one call at a time, each run to its end before the next starts
NextSeq ==
    \/ Quiet /\ StartCall
    \/ Quiet /\ \E delta \in ClockDeltas : AdvanceClock(delta)
    \/ StepCall
    \/ \E u \in Users : Fault(u)
    \/ \E u \in Users : ReturnSeq(u)

SpecSeq == InitSeq /\ [][NextSeq]_vars

\* one call at a time, with the clients' uses of the shared secret
NextSecret ==
    \/ Quiet /\ StartCall
    \/ Quiet /\ StartSecret
    \/ StepWhole
    \/ StepSecret
    \/ \E u \in Users : ReturnSeq(u)

SpecSecret == InitSecret /\ [][NextSecret]_vars

DeckDeltas == {1, MinuteMs, (COOLDOWN_MINUTES - 1) * MinuteMs - 1,
               COOLDOWN_MINUTES * MinuteMs}

TextLengths == {MAX_TEXT_LENGTH, MAX_TEXT_LENGTH + 1}

DeckCreate ==
    \E p \in DeckPairs : \E creatorId \in Creators : \E length \in TextLengths :
        CreateTextCard(p, creatorId, length)

DeckStart ==
    \E k \in Slots : \E p \in DeckPairs : \E v \in Viewers :
        DrawRandomCard_Start(k, p, v)

DeckStep ==
    \E k \in Slots :
        \/ DrawRandomCard_CheckCooldown(k)
        \/ DrawRandomCard_GetUnread(k)
        \/ DrawRandomCard_GetAll(k)
        \/ ResetDeck_GetAll(k)
        \/ \E c \in CardIds : ResetDeck_Update(k, c)
        \/ DrawRandomCard_Requery(k)
        \/ SelectAndMarkCard_Mark(k)
        \/ RecordDraw(k)

\* draws of several calls interleave, cards are added and time passes
NextDeck ==
    \/ DeckCreate
    \/ DeckStart
    \/ DeckStep
    \/ \E delta \in DeckDeltas : AdvanceClock(delta)
    \/ \E k \in Slots : DrawReturn(k)

SpecDeck == InitDeck /\ [][NextDeck]_vars

\* one call at a time, no write while a draw runs
NextDeckSeq ==
    \/ DQuiet /\ DeckCreate
    \/ DQuiet /\ DeckStart
    \/ DeckStep
    \/ DQuiet /\ \E delta \in DeckDeltas : AdvanceClock(delta)
    \/ \E k \in Slots : DrawReturn(k)

SpecDeckSeq == InitDeckSeq /\ [][NextDeckSeq]_vars

\* one call at a time, and any request of a draw may reject
NextDeckFault ==
    \/ DQuiet /\ DeckCreate
    \/ DQuiet /\ DeckStart
    \/ DeckStep
    \/ DQuiet /\ \E delta \in DeckDeltas : AdvanceClock(delta)
    \/ \E k \in Slots : DrawFault(k)
    \/ \E k \in Slots : DrawReturn(k)

SpecDeckFault == InitDeckSeq /\ [][NextDeckFault]_vars

\* one client of me, the other identities acting on the store
NextClient ==
    \/ Login_Start
    \/ Login_Done
    \/ Logout_Start
    \/ Logout_Done
    \/ \E p \in ClientPairs : Accept_Call(p)
    \/ Readback_Fire
    \/ ClientBreakup_Call
    \/ ClientBreakup_Service
    \/ ClientBreakup_Set
    \/ \E p \in ClientPairs : RemoteAccept(p)
    \/ \E p \in ClientPairs : RemoteBreakup(p)
    \/ UseSecret
    \/ Deliver
    \/ \E i \in 1..MaxOpsClient : Load_Read(i)
    \/ \E i \in 1..MaxOpsClient : Load_Done(i)

SpecClient == InitClient /\ [][NextClient]_vars

\* the client with its asynchronous steps scheduled fairly: a delivered
\* snapshot, a fired timer, an answered request and a resumed await each
\* happen once they can
ClientFairness ==
    /\ WF_vars(Deliver)
    /\ WF_vars(Readback_Fire)
    /\ WF_vars(\E i \in 1..MaxOpsClient : Load_Read(i))
    /\ WF_vars(\E i \in 1..MaxOpsClient : Load_Done(i))
    /\ WF_vars(Login_Done)
    /\ WF_vars(Logout_Done)
    /\ WF_vars(ClientBreakup_Service)
    /\ WF_vars(ClientBreakup_Set)

SpecClientFair == InitClientFair /\ [][NextClient]_vars /\ ClientFairness

\* a text by its characters: those of one UTF-16 code unit and those of two
Contents ==
    {[single |-> MAX_TEXT_LENGTH, double |-> 0],
     [single |-> MAX_TEXT_LENGTH + 1, double |-> 0],
     [single |-> MAX_TEXT_LENGTH - 2, double |-> 1],
     [single |-> 0, double |-> MAX_TEXT_LENGTH \div 2 + 1]}

\* content.length: the number of UTF-16 code units
ContentLength(content) == content.single + 2 * content.double

CodePoints(content) == content.single + content.double

\* pairing calls one at a time, and the cards the paired clients save
NextCards ==
    \/ Quiet /\ StartCall
    \/ StepWhole
    \/ \E u \in Users : ReturnSeq(u)
    \/ Quiet /\ \E u \in Users : \E content \in Contents :
                   HandleSave(u, ContentLength(content))

SpecCards == InitCards /\ [][NextCards]_vars

DeviceQuiet ==
    \A d \in Devices :
        /\ ~authState[d].changed
        /\ \A k \in CallSlots : secretCalls[d][k].at = "idle"

DeviceStart ==
    \/ \E u \in Accounts : \E d \in Devices : Register(u, d)
    \/ \E u \in Accounts : \E d \in Devices : DeviceLogin(u, d)
    \/ \E d \in Devices : DeviceLogout(d)
    \/ \E d \in Devices : \E p \in PairKeys : Evict(d, p)
    \/ \E d \in Devices : PublishInvite(d)
    \/ \E d \in Devices : \E p \in PairKeys :
          SaveVoiceCard(d, p, <<0>>, RandomBytes(0))

SecretStart ==
    \E d \in Devices : \E k \in CallSlots : \E v \in Accounts : Secret_Call(d, k, v)

SecretStep ==
    \/ \E d \in Devices : \E k \in CallSlots : Secret_GetPrivateKey(d, k)
    \/ \E d \in Devices : \E k \in CallSlots : Secret_Set(d, k)
    \/ \E d \in Devices : \E k \in CallSlots : Secret_Return(d, k)
    \/ \E d \in Devices : AuthStateChanged(d)

\* the devices, their getSharedSecret calls interleaved at every await
NextDevice == DeviceStart \/ SecretStart \/ SecretStep

SpecDevice == InitDevice /\ [][NextDevice]_vars

\* the devices, one call at a time
NextDeviceSeq ==
    \/ DeviceQuiet /\ DeviceStart
    \/ DeviceQuiet /\ SecretStart
    \/ SecretStep

SpecDeviceSeq == InitDeviceSeq /\ [][NextDeviceSeq]_vars

(***************************************************************************)
(* The pairing claims.                                                     *)
(***************************************************************************)
\* the two ids in code unit order, joined by an underscore
SortedConcat(a, b) ==
    IF StrLess(a, b) THEN a \o <<Underscore>> \o b ELSE b \o <<Underscore>> \o a

\* one pair of a and b, and both documents pointing at it
Converged(a, b) ==
    LET p == SortedConcat(a, b)
    IN  /\ pairs[p].exists
        /\ Members(pairs[p]) = {a, b}
        /\ PairsOf(a) = {p}
        /\ PairsOf(b) = {p}
        /\ users[a] = [partnerId |-> p, connectionStatus |-> "connected"]
        /\ users[b] = [partnerId |-> p, connectionStatus |-> "connected"]

\* the call before u's finished acceptInviteCode was u's acceptInviteCode of
\* the same code, started with both identities unpaired and the code live
RetryOfCleanAccept(u) ==
    /\ pc[u] = "done"
    /\ loc[u].op = "accept"
    /\ prevCall.op = "accept"
    /\ prevCall.by = u
    /\ prevCall.code = loc[u].code
    /\ prevCall.clean

\* C1: after acceptInviteCode(code, B) has run to its end two or more times
\* in a row on a live code of an unpaired A by an unpaired B, there is
\* exactly one pair of A and B, with the sorted id, and both documents are
\* connected to it
C1_AcceptTwice ==
    \A u \in Users :
        (RetryOfCleanAccept(u) /\ prevCall.result # "network"
            /\ loc[u].result # "network")
        => Converged(prevCall.inviterId, u)

C1_Witness ==
    \E u \in Users :
        /\ RetryOfCleanAccept(u)
        /\ prevCall.result = "ok"
        /\ loc[u].result = "InvalidCode"

\* C2: an acceptInviteCode that stopped after some of its writes, followed
\* by a complete acceptInviteCode of the same code by the same accepter (the
\* code not expired meanwhile), ends with one pair, both documents connected
\* to it and the invite code deleted
C2_RetryConverges ==
    \A u \in Users :
        (RetryOfCleanAccept(u) /\ prevCall.result = "network"
            /\ loc[u].result \notin {"network", "CodeExpired"})
        => /\ loc[u].result = "ok"
           /\ Converged(prevCall.inviterId, u)
           /\ ~inviteCodes[loc[u].code].exists

C2_Witness ==
    \E u \in Users :
        /\ RetryOfCleanAccept(u)
        /\ prevCall.result = "network"
        /\ prevCall.writes = 1
        /\ loc[u].result = "ok"

\* C3: no identity is a member of more than one existing pair
C3_AtMostOnePair == \A u \in Users : Cardinality(PairsOf(u)) <= 1

\* C7: a successful acceptInviteCode on a live code of A by B, both
\* unpaired, leaves the pair with the sorted id and members A and B, both
\* documents connected to it and the code deleted; and a later
\* acceptInviteCode of that code, by anyone, fails with InvalidCode
C7_AcceptPostcondition ==
    /\ \A u \in Users :
        (pc[u] = "done" /\ loc[u].op = "accept" /\ loc[u].result = "ok"
            /\ loc[u].clean)
        => /\ Converged(loc[u].inviterId, u)
           /\ ~inviteCodes[loc[u].code].exists
    /\ \A v \in Users :
        (pc[v] = "done" /\ loc[v].op = "accept" /\ prevCall.op = "accept"
            /\ prevCall.result = "ok" /\ prevCall.clean
            /\ prevCall.code = loc[v].code)
        => loc[v].result = "InvalidCode"

C7_Witness ==
    \E v \in Users :
        /\ pc[v] = "done" /\ loc[v].op = "accept"
        /\ prevCall.op = "accept" /\ prevCall.result = "ok" /\ prevCall.clean
        /\ prevCall.code = loc[v].code
        /\ v \notin {prevCall.by, prevCall.inviterId}
        /\ Converged(prevCall.inviterId, prevCall.by)

\* the calls that have computed their pair id
Computed == {u \in Users : loc[u].op = "accept" /\ loc[u].pairId # Null}

\* C8: two acceptances between the same two identities compute the same
\* pair id, whoever issued the code and whoever accepted it
C8_PairIdSymmetric ==
    \A u, v \in Computed :
        {loc[u].inviterId, u} = {loc[v].inviterId, v}
        => loc[u].pairId = loc[v].pairId

C8_Witness ==
    \E u, v \in Computed :
        /\ u # v
        /\ loc[u].inviterId = v
        /\ loc[v].inviterId = u
        /\ pc[u] = "acc_getInviter"
        /\ pc[v] = "acc_getInviter"

\* no acceptInviteCode or breakup is between its first and its last step
NoCallPartway == \A u \in Users : pc[u] \in {"idle", "done"}

\* C9: when no call is partway, a pair exists iff both its members'
\* documents hold its id
C9_PairIffBothReference ==
    NoCallPartway =>
        \A a, b \in Users :
            a # b =>
                (pairs[SortedConcat(a, b)].exists
                    <=> /\ users[a].partnerId = SortedConcat(a, b)
                        /\ users[b].partnerId = SortedConcat(a, b))

\* C10: when breakup by a member has finished, both members' documents are
\* unpaired and broken, the pair is deleted and the caller's cache holds no
\* secret for the pair; the caller's next getSharedSecret for it derives
C10_BreakupPostcondition ==
    /\ \A u \in Users :
        (pc[u] = "done" /\ loc[u].op = "breakup" /\ loc[u].result = "ok")
        => /\ users[loc[u].pairData.user1Id] =
                 [partnerId |-> Null, connectionStatus |-> "broken"]
           /\ users[loc[u].pairData.user2Id] =
                 [partnerId |-> Null, connectionStatus |-> "broken"]
           /\ ~pairs[loc[u].pairId].exists
           /\ sharedSecretCache[u][loc[u].pairId] = NoSecret
    /\ \A u \in Users :
        (pc[u] = "done" /\ loc[u].op = "getSharedSecret"
            /\ prevCall.op = "breakup" /\ prevCall.by = u
            /\ prevCall.result = "ok" /\ prevCall.pairId = loc[u].pairId)
        => loc[u].result = "derived"

C10_Witness ==
    \E u \in Users :
        /\ pc[u] = "done" /\ loc[u].op = "getSharedSecret"
        /\ prevCall.op = "breakup" /\ prevCall.by = u
        /\ prevCall.result = "ok" /\ prevCall.pairId = loc[u].pairId
        /\ prevCall.clean
        /\ loc[u].result = "derived"

(***************************************************************************)
(* The deck and cooldown claims.                                           *)
(***************************************************************************)
\* no drawRandomCard is between its first and its last step
DrawsSettled == \A k \in Slots : dpc[k] \in {"idle", "done"}

\* the cards drawn from the deck of p, oldest draw first
RECURSIVE DrawnFrom(_, _)
DrawnFrom(history, p) ==
    IF history = << >>
    THEN << >>
    ELSE IF Head(history).pairId = p
         THEN <<Head(history).cardId>> \o DrawnFrom(Tail(history), p)
         ELSE DrawnFrom(Tail(history), p)

\* every card of the deck of p was there, unread, before the first draw
FreshDeck(p) == \A c \in GetAllCards(p) : cards[c].drawsBefore = 0

Unread(p) == {c \in GetAllCards(p) : ~cards[c].isRead}

\* C4: on a deck of N >= 1 cards, all unread at first, with one call at a
\* time, every draw that is not held back by the cooldown returns a card;
\* the first N draws return N different cards and leave unread exactly the
\* cards not drawn yet; the draw after them leaves N - 1 cards unread, all
\* but the one it returned
C4_DeckFairness ==
    /\ \A k \in Slots :
          (dpc[k] = "done" /\ dloc[k].result # "CooldownActive"
              /\ GetAllCards(dloc[k].pairId) # {})
          => dloc[k].result = "card"
    /\ DrawsSettled =>
          \A p \in DeckPairs :
              LET N == Cardinality(GetAllCards(p))
                  drawn == DrawnFrom(draws, p)
              IN  (FreshDeck(p) /\ N >= 1) =>
                     /\ Len(drawn) <= N =>
                           /\ \A i, j \in 1..Len(drawn) :
                                 i # j => drawn[i] # drawn[j]
                           /\ Unread(p) =
                                 GetAllCards(p) \ {drawn[i] : i \in 1..Len(drawn)}
                     /\ Len(drawn) = N + 1 =>
                           /\ Unread(p) = GetAllCards(p) \ {drawn[N + 1]}
                           /\ Cardinality(Unread(p)) = N - 1

C4_Witness ==
    /\ DrawsSettled
    /\ \E p \in DeckPairs :
          /\ FreshDeck(p)
          /\ Cardinality(GetAllCards(p)) = 2
          /\ Len(DrawnFrom(draws, p)) = 3
          /\ Cardinality(Unread(p)) = 1

\* C5: two draws recorded for the same viewer in the same pair are at least
\* fifteen minutes apart
C5_DrawsApart ==
    \A i, j \in 1..Len(draws) :
        (i < j /\ draws[i].pairId = draws[j].pairId
               /\ draws[i].viewedBy = draws[j].viewedBy)
        => draws[j].drawnAt - draws[i].drawnAt >= 15 * 60000

\* the time since the viewer's last draw when the call began, or NoDrawYet
ElapsedAtStart(call) ==
    IF LastDrawTime(call.drawsBefore, call.pairId, call.viewerId) = NoDrawYet
    THEN NoDrawYet
    ELSE call.checkedAt
            - LastDrawTime(call.drawsBefore, call.pairId, call.viewerId)

\* C6: a draw is held back exactly when the viewer's last draw in the pair
\* is less than fifteen minutes old; the remaining time it reports is the
\* rest of the fifteen minutes rounded up to whole minutes, between 1 and
\* 15, and neither a card nor the draw history has changed
C6_Cooldown ==
    \A k \in Slots :
        dpc[k] = "done" =>
            LET elapsed == ElapsedAtStart(dloc[k])
                rest == 15 * 60000 - elapsed
                remaining == dloc[k].remainingMinutes
            IN  IF elapsed = NoDrawYet \/ elapsed >= 15 * 60000
                THEN dloc[k].result # "CooldownActive"
                ELSE /\ dloc[k].result = "CooldownActive"
                     /\ remaining \in 1..15
                     /\ (remaining - 1) * 60000 < rest
                     /\ rest <= remaining * 60000
                     /\ cards = dloc[k].cardsBefore
                     /\ draws = dloc[k].drawsBefore

C6_Witness ==
    \E k \in Slots :
        /\ dpc[k] = "done"
        /\ dloc[k].result = "CooldownActive"
        /\ ElapsedAtStart(dloc[k]) = 15 * 60000 - 1
        /\ dloc[k].remainingMinutes = 1

(***************************************************************************)
(* The error claims of pairing.                                            *)
(***************************************************************************)
\* u's call begins in this step
Starts(u, op) == pc[u] = "idle" /\ pc'[u] # "idle" /\ loc'[u].op = op

\* C11: breakup of an existing pair by an identity that is not one of its
\* members ends at once with NotAMember, and the pair, the Identity
\* documents and the secret caches are what they were
C11_BreakupByStranger ==
    [][\A u \in Users :
          (/\ Starts(u, "breakup")
           /\ pairs[loc'[u].pairId].exists
           /\ u \notin {pairs[loc'[u].pairId].user1Id,
                        pairs[loc'[u].pairId].user2Id})
          => /\ pc'[u] = "done"
             /\ loc'[u].result = "NotAMember"
             /\ UNCHANGED <<pairs, users, sharedSecretCache>>]_vars

C11_Witness ==
    \E u \in Users :
        /\ pc[u] = "done"
        /\ loc[u].op = "breakup"
        /\ loc[u].result = "NotAMember"
        /\ pairs[loc[u].pairId].exists
        /\ \E v \in Users : sharedSecretCache[v][loc[u].pairId] # NoSecret

\* the three early failures of acceptInviteCode
EarlyFailure(u, c) ==
    IF ~inviteCodes[c].exists THEN "InvalidCode"
    ELSE IF inviteCodes[c].expiresAt < now THEN "CodeExpired"
    ELSE IF inviteCodes[c].userId = u THEN "SelfPairing"
    ELSE "none"

\* C12: acceptInviteCode ends at once with InvalidCode when there is no
\* invite for the code, with CodeExpired when the clock is past the
\* invite's expiresAt, with SelfPairing when the (unexpired) invite is the
\* accepter's own; pairs, Identity documents and invite codes are what they
\* were
C12_EarlyFailures ==
    [][\A u \in Users :
          (Starts(u, "accept") /\ EarlyFailure(u, loc'[u].code) # "none")
          => /\ pc'[u] = "done"
             /\ loc'[u].result = EarlyFailure(u, loc'[u].code)
             /\ UNCHANGED <<pairs, users, inviteCodes>>]_vars

C12_Witness ==
    \E u \in Users :
        /\ pc[u] = "done"
        /\ loc[u].op = "accept"
        /\ loc[u].result = "SelfPairing"
        /\ inviteCodes[loc[u].code].expiresAt = now

\* C13: an acceptInviteCode that has passed its two already-paired checks
\* (and has written nothing yet) did not start with a party whose Identity
\* document holds the id of another pair while the computed pair is absent
C13_RejectsPairedElsewhere ==
    \A u \in Users :
        pc[u] = "acc_getPair" =>
            ~ /\ ~pairs[loc[u].pairId].exists
              /\ \/ users[u].partnerId \notin {Null, loc[u].pairId}
                 \/ users[loc[u].inviterId].partnerId \notin {Null, loc[u].pairId}

\* C14: generateInviteCode by an identity whose Identity document holds a
\* pair id ends with AlreadyPaired and creates no invite code
C14_PairedCannotInvite ==
    [][\A u \in Users :
          (Starts(u, "generate") /\ users[u].partnerId # Null)
          => /\ loc'[u].result = "AlreadyPaired"
             /\ UNCHANGED inviteCodes]_vars

\* the cards the pair of the call had when the call began
CardsAtStart(call) ==
    {c \in CardIds : /\ call.cardsBefore[c].exists
                     /\ call.cardsBefore[c].pairId = call.pairId}

\* C20: a drawRandomCard on a pair without cards returns no card, and the
\* cards and the draw history are what they were when it began
C20_EmptyDeck ==
    \A k \in Slots :
        (dpc[k] = "done" /\ CardsAtStart(dloc[k]) = {})
        => /\ dloc[k].result = "null"
           /\ cards = dloc[k].cardsBefore
           /\ draws = dloc[k].drawsBefore

C20_Witness ==
    \E k \in Slots :
        /\ dpc[k] = "done"
        /\ CardsAtStart(dloc[k]) = {}
        /\ dloc[k].result = "null"
        /\ \E c \in CardIds : cards[c].exists /\ cards[c].isRead


\* C22: every card a drawRandomCard returns was created by the viewer's
\* partner, never by the viewer
C22_DrawsPartnersCard ==
    \A k \in Slots :
        (dpc[k] = "done" /\ dloc[k].result = "card")
        => cards[dloc[k].selected].creatorId # dloc[k].viewerId

\* the cards of the pair of the call that were unread when the call began
UnreadAtStart(call) ==
    {c \in CardsAtStart(call) : ~call.cardsBefore[c].isRead}

\* C26: with one call at a time and cards created between the draws, a draw
\* that returns a card returns one that was unread just before the draw,
\* unless every card of the pair was read at that moment
C26_DrawsUnreadFirst ==
    \A k \in Slots :
        (dpc[k] = "done" /\ dloc[k].result = "card"
            /\ UnreadAtStart(dloc[k]) # {})
        => dloc[k].selected \in UnreadAtStart(dloc[k])

\* a draw took the unread card of a pair that also had a read card, the
\* unread one created after an earlier draw
C26_Witness ==
    \E k \in Slots :
        /\ dpc[k] = "done"
        /\ dloc[k].result = "card"
        /\ dloc[k].selected \in UnreadAtStart(dloc[k])
        /\ cards[dloc[k].selected].drawsBefore > 0
        /\ CardsAtStart(dloc[k]) \ UnreadAtStart(dloc[k]) # {}

\* C27: under any interleaving of the draws, a draw that the cooldown allows
\* returns no card only if the pair had no card
C27_NullOnlyWhenEmpty ==
    \A k \in Slots :
        (dpc[k] = "done" /\ dloc[k].result = "null")
        => CardsAtStart(dloc[k]) = {}

\* C21: the pairId of every card is the id of an existing pair, also after a
\* breakup of that pair
C21_CardsOfExistingPairs ==
    \A c \in CardIds : cards[c].exists => pairs[cards[c].pairId].exists

\* C24: every payload that is encrypted is stored, and what is stored decrypts
\* under the same key to the payload, for text and for voice
C24_RoundTrip ==
    /\ cipher.op = "encrypted" => cipher.outcome = "ok"
    /\ (cipher.op = "decrypted" /\ cipher.cut = 0 /\ cipher.key2 = cipher.key)
       => (cipher.outcome = "ok" /\ cipher.value = cipher.payload)

\* C25: decrypting a text under another key, or a text that was cut short,
\* fails with the one error Decryption failed
C25_SameFailure ==
    (/\ cipher.op = "decrypted"
     /\ cipher.kind = "text"
     /\ (cipher.key2 # cipher.key \/ cipher.cut = 1))
    => cipher.outcome = "Decryption failed"

PublicKeys == {PublicKey(u) : u \in Accounts}

Deriving(call) == call.at \in {"getPrivateKey", "set"}

\* C28: on one device no two derivations for the same pairId are in flight
C28_OneDerivationInFlight ==
    \A d \in Devices : \A j, k \in CallSlots :
        (/\ j # k
         /\ Deriving(secretCalls[d][j])
         /\ Deriving(secretCalls[d][k]))
        => secretCalls[d][j].pairId # secretCalls[d][k].pairId

\* C29: with one call at a time, since the last eviction of a pairId at most
\* one derivation has run for it and all calls have returned one value; a hit
\* returns the cached value without reading the private key; a call that
\* fails with KeyMissing leaves the cache empty
C29_DerivesOncePerEviction ==
    \A d \in Devices :
        /\ \A p \in PairKeys :
              /\ derivations[d][p].count <= 1
              /\ Cardinality(derivations[d][p].values) <= 1
        /\ \A k \in CallSlots :
              LET call == secretCalls[d][k]
              IN  /\ (call.at = "done" /\ call.result = "hit")
                     => /\ ~call.readKey
                        /\ call.cacheBefore # NoSecret
                        /\ call.value = call.cacheBefore
                        /\ deviceCache[d][call.pairId] = call.cacheBefore
                  /\ (call.at = "done" /\ call.result = "derived")
                     => /\ call.cacheBefore = NoSecret
                        /\ call.readKey
                        /\ deviceCache[d][call.pairId] = call.value
                        /\ call.value # NoSecret
                  /\ (call.at = "done" /\ call.result = "KeyMissing")
                     => deviceCache[d][call.pairId] = NoSecret

\* a call that hit the cache after an earlier call had derived the value
C29_Witness ==
    \E d \in Devices : \E k \in CallSlots :
        /\ secretCalls[d][k].at = "done"
        /\ secretCalls[d][k].result = "hit"
        /\ derivations[d][secretCalls[d][k].pairId].count = 1

\* the store says that me is paired, the pair exists, and the client is
\* logged in with nothing of a user action left to run
Settled ==
    /\ loggedIn
    /\ cpc = "idle"
    /\ users[me].connectionStatus = "connected"
    /\ users[me].partnerId # Null
    /\ pairs[users[me].partnerId].exists

\* the client shows the pair of the store
ShowsPartner ==
    /\ ctx.connectionStatus = "connected"
    /\ users[me].partnerId # Null
    /\ ctx.partner = PartnerIn(users[me].partnerId)

\* C30: when the writes have ended with me paired, by an accept of me or of
\* the other identity, and no request of the client has failed, the client
\* eventually shows connected with the other member as partner and stays so
C30_EventuallyConnected ==
    <>[](Settled /\ ~hist.failed) => <>[]ShowsPartner

\* nothing of the client is left to run
Quiescent ==
    /\ loads = << >>
    /\ ~feedPending
    /\ readback = "none"
    /\ cpc = "idle"
    /\ ~ctx.loading
    /\ ~ctx.loadingRef

\* a step that starts a load starts one and is no step of a load in flight:
\* the loads in flight stay as they are
StartsNoLoadItself ==
    Len(loads') > Len(loads)
    => /\ Len(loads') = Len(loads) + 1
       /\ SubSeq(loads', 1, Len(loads)) = loads
       /\ loads'[Len(loads')].phase = "sent"

\* C31: no load is started by a load, and once the writes and the user
\* actions have ended the client comes to rest with loading = false
C31_Terminates ==
    [][StartsNoLoadItself]_vars /\ <>[]Quiescent

\* the client at rest after a load that it had started
C31_Witness ==
    /\ Quiescent
    /\ loggedIn
    /\ hist.requested # Null
    /\ ctx.partner # Null

\* the records of the history that the viewer of the call made in its pair
\* less than the cooldown before the call read the clock
RecentOwnDraws(call) ==
    {i \in 1..Len(call.drawsBefore) :
        /\ call.drawsBefore[i].pairId = call.pairId
        /\ call.drawsBefore[i].viewedBy = call.viewerId
        /\ call.checkedAt - call.drawsBefore[i].drawnAt
              < COOLDOWN_MINUTES * MinuteMs}

\* the records of another viewer or of another pair, as recent
RecentOtherDraws(call) ==
    {i \in 1..Len(call.drawsBefore) :
        /\ (call.drawsBefore[i].pairId # call.pairId
            \/ call.drawsBefore[i].viewedBy # call.viewerId)
        /\ call.checkedAt - call.drawsBefore[i].drawnAt
              < COOLDOWN_MINUTES * MinuteMs}

\* C32: with one call at a time, a draw is refused by the cooldown exactly
\* when the same viewer has a recent draw in the same pair; the draws of the
\* partner and of other pairs do not count
C32_CooldownPerViewer ==
    \A k \in Slots :
        dpc[k] = "done"
        => (dloc[k].result = "CooldownActive" <=> RecentOwnDraws(dloc[k]) # {})

\* a draw that returned a card right after a draw of the other viewer
C32_Witness ==
    \E k \in Slots :
        /\ dpc[k] = "done"
        /\ dloc[k].result = "card"
        /\ \E i \in RecentOtherDraws(dloc[k]) :
              dloc[k].drawsBefore[i].pairId = dloc[k].pairId

\* the step stored one card of the pair, unread, by the creator, and left the
\* other cards as they were
StoredOneCard(pairId, creatorId) ==
    \E c \in CardIds :
        /\ ~cards[c].exists
        /\ cards'[c].exists
        /\ cards'[c].pairId = pairId
        /\ cards'[c].creatorId = creatorId
        /\ ~cards'[c].isRead
        /\ \A d \in CardIds \ {c} : cards'[d] = cards[d]

\* C33: saving a text of more than 200 code points stores nothing, saving a
\* text of at most 200 code points stores one new unread card of the creator
\* and changes no other card
C33_CreateValidates ==
    [][\A u \in Users : \A content \in Contents :
          HandleSave(u, ContentLength(content))
          => IF CodePoints(content) > MAX_TEXT_LENGTH
             THEN cards' = cards
             ELSE StoredOneCard(localUser[u].partnerId, u)]_vars

\* C34: a getSharedSecret call under which the cache was cleared, by a breakup
\* or a logout, leaves no entry for its pairId when it has finished
C34_EvictionStays ==
    \A d \in Devices : \A k \in CallSlots :
        (/\ secretCalls[d][k].at = "done"
         /\ secretCalls[d][k].cleared
         /\ \A j \in CallSlots \ {k} : ~Deriving(secretCalls[d][j]))
        => deviceCache[d][secretCalls[d][k].pairId] = NoSecret

\* the identities whose ids form pairId
MembersOf(pairId) ==
    {u \in Accounts : \E v \in Accounts \ {u} : PairIdOf(u, v) = pairId}

\* C35: every entry of a device's cache is the secret derived from the private
\* key now stored on the device and the public key of a member of the pair
C35_CacheMatchesKeys ==
    \A d \in Devices : \A p \in PairKeys :
        deviceCache[d][p] # NoSecret
        => /\ asyncStorage[d].privateKey # Null
           /\ \E v \in MembersOf(p) :
                 /\ published.users[v] # Null
                 /\ deviceCache[d][p] =
                       DeriveSharedSecret(published.users[v],
                                          asyncStorage[d].privateKey)

\* the private half of a public key
PrivateHalf(publicKey) == PrivateKey(publicKey[2])

\* C36: the private key stored on a device is the private half of the public
\* key in the user document of the identity logged in on that device
C36_KeyOfTheLoggedIn ==
    \A d \in Devices :
        (authUser[d] # Null /\ asyncStorage[d].privateKey # Null)
        => asyncStorage[d].privateKey = PrivateHalf(published.users[authUser[d]])

\* C37: after a login that failed on a device, and after the callback it
\* triggered, the client has no user and no session is active on the device
C37_FailedLoginSignsOut ==
    \A d \in Devices :
        (authState[d].failed /\ ~authState[d].changed)
        => (authState[d].user = Null /\ authUser[d] = Null)

\* the records the call in slot k appended for card c and its viewer
RecordsOfCall(k, c) ==
    {i \in (Len(dloc[k].drawsBefore) + 1)..Len(draws) :
        /\ draws[i].pairId = dloc[k].pairId
        /\ draws[i].cardId = c
        /\ draws[i].viewedBy = dloc[k].viewerId}

(***************************************************************************)
(* C38: once a drawRandomCard call has ended, by returning or by a         *)
(* rejected request, every card it set to isRead = true has exactly one    *)
(* DrawRecord appended by that call, with that card and the viewer.        *)
(***************************************************************************)
C38_MarkedIsRecorded ==
    \A k \in Slots :
        dpc[k] = "done" =>
            \A c \in dloc[k].marked : Cardinality(RecordsOfCall(k, c)) = 1

C15_OneLoadInFlight == Len(loads) <= 1

\* C16: a load asked for P2 while a load for another id is in flight
\* supersedes it: once every load has finished (none of them failed, the feed
\* has nothing left to deliver) the partner is the identity resolved for P2
C16_Supersedes ==
    (/\ loggedIn
     /\ loads = << >>
     /\ ~feedPending
     /\ hist.superseding
     /\ ~hist.failed)
    => ctx.partner = GetPartner(me, hist.requested)

\* C17: after the feed has delivered a document that is not connected, and
\* until the identity is connected again, the partner is null and the cache
\* holds no secret of the former pair
C17_DropsPartner ==
    hist.dropped
    => /\ ctx.partner = Null
       /\ hist.former # Null => sharedSecretCache[me][hist.former] = NoSecret

\* C19: with no user action or read-back in flight and the latest document
\* delivered by the feed, the client's connectionStatus is the document's
C19_FeedIsTruth ==
    (/\ loggedIn
     /\ subscriptions = 1
     /\ cpc = "idle"
     /\ readback = "none"
     /\ ~feedPending)
    => ctx.connectionStatus = users[me].connectionStatus

SubscribedIffLoggedIn == subscriptions = IF loggedIn THEN 1 ELSE 0

LogoutCompletes == cpc = "logout" /\ cpc' = "idle"

====
